---- MODULE Spec2Model ----
(***************************************************************************)
(* Kalembang: the motor controller (gpio.py), the stop-button monitor and  *)
(* the alarm scheduler (main.py) and the alarm store (database.py), as one *)
(* state machine.  The software PWM channels of pwm.py are part of the     *)
(* state; nothing in gpio.py or main.py creates or starts one.             *)
(*                                                                         *)
(* Every controller method and every API handler is synchronous Python     *)
(* with no await in it, and the two background loops await only in their   *)
(* sleeps: on the single asyncio event loop each call and each loop        *)
(* iteration runs to completion before anything else runs.  One action of  *)
(* this module is one such run.                                            *)
(***************************************************************************)
EXTENDS Integers, Sequences, FiniteSets, TLC

(* ------------------------------ config.py ------------------------------ *)
ENA_PIN == 4
IN1_PIN == 0
IN2_PIN == 2
ENB_PIN == 5
IN3_PIN == 3
IN4_PIN == 6
STOP_BTN_PIN == 1
MOTOR_A_DIRECTION == <<1, 0>>
MOTOR_B_DIRECTION == <<1, 0>>
STOP_LATCH == TRUE

(* The duty values handed to set_clockN_duty: below, at and above both ends *)
(* of 0..100, and a mid-range value.                                        *)
DutyInputs == {0 - 5, 0, 50, 100, 150}

(* What DutyRequest lets through to the duty handlers (ge=0, le=100).       *)
ApiDutyInputs == {0, 50, 100}

(* The wall clock stops at MaxTime; at most MaxTasks auto-off tasks exist.  *)
MaxTime == 2
MaxTasks == 3

(* At most MaxChannels SoftwarePWM objects are constructed, and at most     *)
(* MaxPwmTasks toggling tasks are alive or referred to at a time.           *)
MaxChannels == 2
MaxPwmTasks == 3

(* At most MaxOwnChannels of the objects are constructed by their user, the *)
(* others by the PWMManager.                                                *)
MaxOwnChannels == 1

(* The frequencies handed to the constructors and to set_frequency: below,  *)
(* inside and above 1..10000.  <<>> is None, <<f>> is f.                    *)
FrequencyInputs == {0, 500, 20000}
OptionalFrequencyInputs == {<<>>, <<0>>, <<20000>>}
DefaultFrequencyInputs == {0, 500}

(* The pins handed to SoftwarePWM, and the channels added to a PWMManager,  *)
(* each <<name, pin>>.                                                      *)
PwmPins == {ENA_PIN, ENB_PIN}
ChannelNames == {"clock1", "clock2"}
ChannelInputs == {<<"clock1", ENA_PIN>>, <<"clock2", ENB_PIN>>}

(* The alarm ids and the request bodies handed to the alarm handlers of the *)
(* API: an id that is in the table and one that is not; an alarm of clock 1 *)
(* that rings once, for one second, at second 0 or 1 of the first minute.   *)
AlarmIdInputs == {1, 3}
AlarmRequests ==
    {[hour |-> 0, minute |-> 0, second |-> s, clock_id |-> 1, enabled |-> TRUE,
      days |-> <<"once">>, duration |-> 1] : s \in {0, 1}}

(* The duties handed to SoftwarePWM.set_duty and to PWMManager.set_duty.    *)
PwmDutyInputs == {0 - 5, 50, 150}
ManagerDutyInputs == {50}

VARIABLES
    backend,          \* MotorController._backend: "mock" or "wiringop"
    pins,             \* level last written to each pin (MockBackend._pins; the line itself)
    modes,            \* mode each pin was configured to (MockBackend._modes; the line itself)
    button,           \* the physical stop button is held down
    initialized,      \* MotorController._initialized
    clock1_enabled,   \* MotorController._clock1_enabled
    clock2_enabled,   \* MotorController._clock2_enabled
    clock1_duty,      \* MotorController._clock1_duty
    clock2_duty,      \* MotorController._clock2_duty
    stop_latched,     \* MotorController._stop_latched
    channels,         \* the SoftwarePWM objects that exist, by object id
    manager,          \* the PWMManager, once one is constructed
    pwm_tasks,        \* the _pwm_loop tasks that have not ended, by task id
    app,              \* lifespan: "down", "serving" or "failed"
    monitor_pc,       \* stop_button_monitor: where the task is suspended
    button_was_pressed, \* stop_button_monitor's local of that name
    scheduler_pc,     \* alarm_scheduler: where the task is suspended
    now,              \* wall clock, in seconds since Monday 00:00:00
    alarms,           \* the rows of table alarms, by id
    alarm_off_tasks,  \* main._alarm_off_tasks: alarm id -> auto-off task
    tasks,            \* the auto_off tasks that are asleep, by task id
    press_pending,    \* history: the button went down and no poll has stopped the clocks since
    prev_sample,      \* history: what the monitor's latest read of the button returned
    race,             \* the stop and turn-on requests that are in flight together
    last              \* the step that ran last: its name, argument, outcome and backend calls

ctlvars == <<backend, pins, modes, initialized, clock1_enabled, clock2_enabled,
             clock1_duty, clock2_duty, stop_latched>>

appvars == <<app, monitor_pc, button_was_pressed, scheduler_pc, now, alarms,
             alarm_off_tasks, tasks>>

pwmvars == <<channels, manager, pwm_tasks>>

vars == <<backend, pins, modes, button, initialized, clock1_enabled, clock2_enabled,
          clock1_duty, clock2_duty, stop_latched, channels, manager, pwm_tasks, app, monitor_pc,
          button_was_pressed, scheduler_pc, now, alarms, alarm_off_tasks, tasks,
          press_pending, prev_sample, race, last>>

histvars == <<press_pending, prev_sample>>

(* ------------------------- dictionaries, helpers ------------------------ *)
EmptyDict == [x \in {} |-> 0]

Put(d, k, v) == [x \in (DOMAIN d) \cup {k} |-> IF x = k THEN v ELSE d[x]]

Remove(d, k) == [x \in (DOMAIN d) \ {k} |-> d[x]]

Range(d) == {d[x] : x \in DOMAIN d}

Max(a, b) == IF a >= b THEN a ELSE b

Min(a, b) == IF a <= b THEN a ELSE b

NoExc == "none"
NotInitializedError == "GPIOError: MotorController not initialized"
GpioCommandError == "GPIOError: gpio command failed"
ReadValueError == "ValueError"

SqliteError == "sqlite3.Error"
HTTP409 == "HTTPException(409)"
HTTP404 == "HTTPException(404)"

IsGPIOError(e) == e \in {NotInitializedError, GpioCommandError}

(* One run in progress: the program's state with the exception raised so    *)
(* far (exc), the value returned (ret, and val for a level read), the       *)
(* backend calls that were carried out (calls, each <<what, pin, level>>),  *)
(* the alarms fired (fired), the live auto-off tasks cancelled (cancelled), *)
(* the number of gpio and sqlite commands issued                            *)
(* (n) and the command that fails in this run (fail, 0 for none; failkind   *)
(* is how a failing read fails).                                            *)
Call(f, kind) ==
    [backend |-> backend, pins |-> pins, modes |-> modes, button |-> button,
     initialized |-> initialized,
     clock1_enabled |-> clock1_enabled, clock2_enabled |-> clock2_enabled,
     clock1_duty |-> clock1_duty, clock2_duty |-> clock2_duty,
     stop_latched |-> stop_latched,
     app |-> app, monitor_pc |-> monitor_pc, button_was_pressed |-> button_was_pressed,
     scheduler_pc |-> scheduler_pc,
     now |-> now, alarms |-> alarms, alarm_off_tasks |-> alarm_off_tasks,
     tasks |-> tasks,
     channels |-> channels, manager |-> manager, pwm_tasks |-> pwm_tasks,
     exc |-> NoExc, ret |-> "None", val |-> 0, status |-> <<>>, calls |-> <<>>,
     fired |-> <<>>, cancelled |-> <<>>, n |-> 0, fail |-> f, failkind |-> kind]

Raised(c) == c.exc # NoExc

Assign(c, field, v) == IF Raised(c) THEN c ELSE [c EXCEPT ![field] = v]

Return(c, v) == IF Raised(c) THEN c ELSE [c EXCEPT !.ret = v]

(* ------------------------- gpio.py: the backends ------------------------ *)
(* WiringOPBackend._run_gpio_cmd: the command runs, or it fails (non-zero  *)
(* exit, gpio not found, timeout) and GPIOError is raised.                  *)
run_gpio_cmd(c) ==
    IF c.n + 1 = c.fail
    THEN [c EXCEPT !.n = c.n + 1, !.exc = GpioCommandError]
    ELSE [c EXCEPT !.n = c.n + 1]

Logged(c, what, pin, v) == [c EXCEPT !.calls = Append(@, <<what, pin, v>>)]

WiringOP_setup_pin_output(c, pin) ==
    LET c1 == run_gpio_cmd(c)
    IN  IF Raised(c1) THEN c1
        ELSE Logged([c1 EXCEPT !.modes = Put(@, pin, "out")], "mode_out", pin, 0)

WiringOP_setup_pin_input_pullup(c, pin) ==
    LET c1 == run_gpio_cmd(c)
        c2 == IF Raised(c1) THEN c1
              ELSE Logged([c1 EXCEPT !.modes = Put(@, pin, "in")], "mode_in", pin, 0)
        c3 == IF Raised(c2) THEN c2 ELSE run_gpio_cmd(c2)
    IN  IF Raised(c3) THEN c3
        ELSE Logged([c3 EXCEPT !.modes = Put(@, pin, "up")], "mode_up", pin, 0)

WiringOP_write(c, pin, value) ==
    LET c1 == run_gpio_cmd(c)
    IN  IF Raised(c1) THEN c1
        ELSE Logged([c1 EXCEPT !.pins = Put(@, pin, value)], "write", pin, value)

(* The stop-button line is pulled up: it reads 0 while the button is held   *)
(* down and 1 otherwise; an output line reads the level last written.  The *)
(* command may fail (GPIOError) or print something int() rejects.           *)
LineLevel(c, pin) ==
    IF pin = STOP_BTN_PIN THEN (IF c.button THEN 0 ELSE 1)
    ELSE IF pin \in DOMAIN c.pins THEN c.pins[pin] ELSE 0

WiringOP_read(c, pin) ==
    IF c.n + 1 = c.fail
    THEN [c EXCEPT !.n = c.n + 1, !.exc = c.failkind]
    ELSE Logged([c EXCEPT !.n = c.n + 1, !.val = LineLevel(c, pin)],
                "read", pin, LineLevel(c, pin))

Mock_setup_pin_output(c, pin) ==
    Logged([c EXCEPT !.modes = Put(@, pin, "out"), !.pins = Put(@, pin, 0)],
           "mode_out", pin, 0)

Mock_setup_pin_input_pullup(c, pin) ==
    Logged([c EXCEPT !.modes = Put(@, pin, "in"), !.pins = Put(@, pin, 1)],
           "mode_in", pin, 0)

Mock_write(c, pin, value) ==
    Logged([c EXCEPT !.pins = Put(@, pin, value)], "write", pin, value)

Mock_read(c, pin) ==
    LET v == IF pin \in DOMAIN c.pins THEN c.pins[pin] ELSE 1
    IN  Logged([c EXCEPT !.val = v], "read", pin, v)

(* self._backend.<method>(...): skipped when an exception is propagating.   *)
(* x is the run so far, evaluated once.                                     *)
setup_pin_output(c, pin) ==
    CHOOSE r \in {IF Raised(x) THEN x
                  ELSE IF x.backend = "mock" THEN Mock_setup_pin_output(x, pin)
                  ELSE WiringOP_setup_pin_output(x, pin) : x \in {c}} : TRUE

setup_pin_input_pullup(c, pin) ==
    CHOOSE r \in {IF Raised(x) THEN x
                  ELSE IF x.backend = "mock" THEN Mock_setup_pin_input_pullup(x, pin)
                  ELSE WiringOP_setup_pin_input_pullup(x, pin) : x \in {c}} : TRUE

write(c, pin, value) ==
    CHOOSE r \in {IF Raised(x) THEN x
                  ELSE IF x.backend = "mock" THEN Mock_write(x, pin, value)
                  ELSE WiringOP_write(x, pin, value) : x \in {c}} : TRUE

read(c, pin) ==
    CHOOSE r \in {IF Raised(x) THEN x
                  ELSE IF x.backend = "mock" THEN Mock_read(x, pin)
                  ELSE WiringOP_read(x, pin) : x \in {c}} : TRUE

(* ------------------------ gpio.py: MotorController ---------------------- *)
(* Variant: the check never raises.                                         *)
ensure_initialized_skipped(c) ==
    c

ensure_initialized(c) ==
    CHOOSE r \in {IF Raised(x) THEN x
                  ELSE IF ~x.initialized THEN [x EXCEPT !.exc = NotInitializedError]
                  ELSE x : x \in {c}} : TRUE

(* Variant: only clock 1's enable pin is written low.                       *)
all_off_clock1_only(c) ==
    LET c1 == write(c, ENA_PIN, 0)
        c3 == Assign(c1, "clock1_enabled", FALSE)
    IN  Assign(c3, "clock2_enabled", FALSE)

all_off(c) ==
    LET c1 == write(c, ENA_PIN, 0)
        c2 == write(c1, ENB_PIN, 0)
        c3 == Assign(c2, "clock1_enabled", FALSE)
    IN  Assign(c3, "clock2_enabled", FALSE)

(* Variant: no early return, an initialized controller is set up again.    *)
initialize_unguarded(c) ==
    LET c1 == setup_pin_output(c, ENA_PIN)
        c2 == setup_pin_output(c1, ENB_PIN)
        c3 == setup_pin_output(c2, IN1_PIN)
        c4 == setup_pin_output(c3, IN2_PIN)
        c5 == setup_pin_output(c4, IN3_PIN)
        c6 == setup_pin_output(c5, IN4_PIN)
        c7 == setup_pin_input_pullup(c6, STOP_BTN_PIN)
        c8 == all_off(c7)
        c9 == write(c8, IN1_PIN, MOTOR_A_DIRECTION[1])
        c10 == write(c9, IN2_PIN, MOTOR_A_DIRECTION[2])
        c11 == write(c10, IN3_PIN, MOTOR_B_DIRECTION[1])
        c12 == write(c11, IN4_PIN, MOTOR_B_DIRECTION[2])
    IN  Assign(c12, "initialized", TRUE)

initialize(c) ==
    IF c.initialized THEN c
    ELSE
        LET c1 == setup_pin_output(c, ENA_PIN)
            c2 == setup_pin_output(c1, ENB_PIN)
            c3 == setup_pin_output(c2, IN1_PIN)
            c4 == setup_pin_output(c3, IN2_PIN)
            c5 == setup_pin_output(c4, IN3_PIN)
            c6 == setup_pin_output(c5, IN4_PIN)
            c7 == setup_pin_input_pullup(c6, STOP_BTN_PIN)
            c8 == all_off(c7)
            c9 == write(c8, IN1_PIN, MOTOR_A_DIRECTION[1])
            c10 == write(c9, IN2_PIN, MOTOR_A_DIRECTION[2])
            c11 == write(c10, IN3_PIN, MOTOR_B_DIRECTION[1])
            c12 == write(c11, IN4_PIN, MOTOR_B_DIRECTION[2])
        IN  Assign(c12, "initialized", TRUE)

(* Variant: the enable pin is written twice.                                *)
clock1_on_twice(c) ==
    LET c1 == ensure_initialized(c)
    IN  IF Raised(c1) THEN c1
        ELSE IF c1.stop_latched THEN Return(c1, "False")
        ELSE Return(Assign(write(write(c1, ENA_PIN, 1), ENA_PIN, 1),
                           "clock1_enabled", TRUE), "True")

clock1_on(c) ==
    LET c1 == ensure_initialized(c)
    IN  IF Raised(c1) THEN c1
        ELSE IF c1.stop_latched THEN Return(c1, "False")
        ELSE Return(Assign(write(c1, ENA_PIN, 1), "clock1_enabled", TRUE), "True")

clock1_off(c) ==
    LET c1 == ensure_initialized(c)
    IN  Assign(write(c1, ENA_PIN, 0), "clock1_enabled", FALSE)

(* Variant: the latch is not looked at.                                     *)
clock2_on_unlatched(c) ==
    LET c1 == ensure_initialized(c)
    IN  IF Raised(c1) THEN c1
        ELSE Return(Assign(write(c1, ENB_PIN, 1), "clock2_enabled", TRUE), "True")

clock2_on(c) ==
    LET c1 == ensure_initialized(c)
    IN  IF Raised(c1) THEN c1
        ELSE IF c1.stop_latched THEN Return(c1, "False")
        ELSE Return(Assign(write(c1, ENB_PIN, 1), "clock2_enabled", TRUE), "True")

clock2_off(c) ==
    LET c1 == ensure_initialized(c)
    IN  Assign(write(c1, ENB_PIN, 0), "clock2_enabled", FALSE)

(* Variant: the duty is stored as given, without the clamp.                 *)
set_clock1_duty_unclamped(c, duty) ==
    LET c1 == ensure_initialized(c)
    IN  IF Raised(c1) THEN c1
        ELSE IF c1.stop_latched /\ duty > 0 THEN Return(c1, "False")
        ELSE
            LET c2 == Assign(c1, "clock1_duty", duty)
                c3 == IF c2.clock1_duty = 0 THEN clock1_off(c2)
                      ELSE IF c2.clock1_duty = 100
                      THEN Assign(write(c2, ENA_PIN, 1), "clock1_enabled", TRUE)
                      ELSE c2
            IN  Return(c3, "True")

set_clock1_duty(c, duty) ==
    LET c1 == ensure_initialized(c)
    IN  IF Raised(c1) THEN c1
        ELSE IF c1.stop_latched /\ duty > 0 THEN Return(c1, "False")
        ELSE
            LET c2 == Assign(c1, "clock1_duty", Max(0, Min(100, duty)))
                c3 == IF c2.clock1_duty = 0 THEN clock1_off(c2)
                      ELSE IF c2.clock1_duty = 100
                      THEN Assign(write(c2, ENA_PIN, 1), "clock1_enabled", TRUE)
                      ELSE c2
            IN  Return(c3, "True")

set_clock2_duty(c, duty) ==
    LET c1 == ensure_initialized(c)
    IN  IF Raised(c1) THEN c1
        ELSE IF c1.stop_latched /\ duty > 0 THEN Return(c1, "False")
        ELSE
            LET c2 == Assign(c1, "clock2_duty", Max(0, Min(100, duty)))
                c3 == IF c2.clock2_duty = 0 THEN clock2_off(c2)
                      ELSE IF c2.clock2_duty = 100
                      THEN Assign(write(c2, ENB_PIN, 1), "clock2_enabled", TRUE)
                      ELSE c2
            IN  Return(c3, "True")

read_stop_button(c) ==
    LET c1 == read(ensure_initialized(c), STOP_BTN_PIN)
    IN  Return(c1, IF c1.val = 0 THEN "True" ELSE "False")

(* Variants: the latch is not set; the call is refused before initialize.   *)
trigger_stop_unlatched(c) ==
    all_off(c)

trigger_stop_gated(c) ==
    Assign(all_off(ensure_initialized(c)), "stop_latched", TRUE)

trigger_stop(c) ==
    Assign(all_off(c), "stop_latched", TRUE)

clear_stop_latch(c) ==
    Assign(c, "stop_latched", FALSE)

(* Variant: the button is read whether or not the controller is initialized. *)
get_status_always_reads(c) ==
    LET c1 == read_stop_button(c)
        st == [clock1 |-> [enabled |-> c.clock1_enabled, duty |-> c.clock1_duty],
               clock2 |-> [enabled |-> c.clock2_enabled, duty |-> c.clock2_duty],
               stop_latched |-> c.stop_latched,
               stop_button_pressed |-> c1.ret]
    IN  Return(Assign(c1, "status", <<st>>), "dict")

get_status(c) ==
    LET c1 == IF c.initialized THEN read_stop_button(c) ELSE c
        st == [clock1 |-> [enabled |-> c.clock1_enabled, duty |-> c.clock1_duty],
               clock2 |-> [enabled |-> c.clock2_enabled, duty |-> c.clock2_duty],
               stop_latched |-> c.stop_latched,
               stop_button_pressed |-> IF c.initialized THEN c1.ret ELSE "None"]
    IN  Return(Assign(c1, "status", <<st>>), "dict")

(* Variant: nothing is switched off.                                        *)
cleanup_skipped(c) ==
    c

cleanup(c) ==
    IF c.initialized THEN all_off(c) ELSE c

(* ----------------------------- database.py ------------------------------ *)
(* An alarm row: hour, minute, second, clock_id, enabled, days, duration,   *)
(* last_triggered (<<>> for NULL, <<t>> for a time).  days is the column    *)
(* text as its comma-separated pieces: "daily" is <<"daily">>.              *)
Second(t) == t % 60
Minute(t) == (t \div 60) % 60
Hour(t) == (t \div 3600) % 24
Weekday(t) == (t \div 86400) % 7

day_map == <<"mon", "tue", "wed", "thu", "fri", "sat", "sun">>

(* d.strip().lower() on the pieces the model's alarms use.                  *)
StripLower(d) ==
    CASE d = " Wed" -> "wed"
      [] d = "MON" -> "mon"
      [] OTHER -> d

(* Variant: a weekday list matches on every day.                            *)
matches_time_any_day(alarm, t) ==
    IF ~alarm.enabled THEN FALSE
    ELSE Hour(t) = alarm.hour /\ Minute(t) = alarm.minute /\ Second(t) = alarm.second

matches_time(alarm, t) ==
    IF ~alarm.enabled THEN FALSE
    ELSE IF Hour(t) # alarm.hour \/ Minute(t) # alarm.minute \/ Second(t) # alarm.second
    THEN FALSE
    ELSE IF alarm.days = <<"daily">> THEN TRUE
    ELSE IF alarm.days = <<"once">> THEN TRUE
    ELSE day_map[Weekday(t) + 1] \in
             {StripLower(alarm.days[i]) : i \in DOMAIN alarm.days}

(* self._conn.execute(...) / commit(): the statement runs, or sqlite raises. *)
db_execute(c) ==
    CHOOSE r \in {IF Raised(x) THEN x
                  ELSE IF x.n + 1 = x.fail
                       THEN [x EXCEPT !.n = x.n + 1, !.exc = SqliteError]
                  ELSE [x EXCEPT !.n = x.n + 1] : x \in {c}} : TRUE

SortKey(alarm) == alarm.hour * 3600 + alarm.minute * 60 + alarm.second

(* The results get_enabled_alarms may return: the ids of the enabled rows   *)
(* in an order that ORDER BY hour, minute, second allows.                   *)
EnabledRows(table) ==
    LET ids == {id \in DOMAIN table : table[id].enabled}
    IN  {rows \in [1..Cardinality(ids) -> ids] :
            /\ \A i, j \in DOMAIN rows : i # j => rows[i] # rows[j]
            /\ \A i, j \in DOMAIN rows :
                   i < j => SortKey(table[rows[i]]) <= SortKey(table[rows[j]])}

get_enabled_alarms(c) == db_execute(c)

mark_triggered(c, alarm_id) ==
    LET c1 == db_execute(c)
    IN  IF Raised(c1) \/ alarm_id \notin DOMAIN c1.alarms THEN c1
        ELSE [c1 EXCEPT !.alarms[alarm_id].last_triggered = <<c1.now>>]

(* Variant: the statement runs and disables nothing.                        *)
disable_once_alarm_kept(c, alarm_id) ==
    db_execute(c)

disable_once_alarm(c, alarm_id) ==
    LET c1 == db_execute(c)
    IN  IF Raised(c1) \/ alarm_id \notin DOMAIN c1.alarms THEN c1
        ELSE IF c1.alarms[alarm_id].days = <<"once">>
        THEN [c1 EXCEPT !.alarms[alarm_id].enabled = FALSE]
        ELSE c1

(* SELECT * FROM alarms WHERE id = ?                                         *)
get_alarm(c, alarm_id) ==
    LET c1 == db_execute(c)
    IN  Return(c1, IF alarm_id \in DOMAIN c1.alarms THEN "Alarm" ELSE "None")

(* UPDATE alarms SET name, hour, minute, second, clock_id, enabled, days,   *)
(* duration WHERE id = ?: last_triggered is not among the columns set.      *)
update_alarm(c, alarm_id, alarm) ==
    LET c1 == db_execute(c)
        c2 == IF Raised(c1) \/ alarm_id \notin DOMAIN c1.alarms THEN c1
              ELSE [c1 EXCEPT !.alarms[alarm_id] =
                       [hour |-> alarm.hour, minute |-> alarm.minute,
                        second |-> alarm.second, clock_id |-> alarm.clock_id,
                        enabled |-> alarm.enabled, days |-> alarm.days,
                        duration |-> alarm.duration, last_triggered |-> @.last_triggered]]
    IN  get_alarm(c2, alarm_id)

toggle_alarm(c, alarm_id, enabled) ==
    LET c1 == db_execute(c)
        c2 == IF Raised(c1) \/ alarm_id \notin DOMAIN c1.alarms THEN c1
              ELSE [c1 EXCEPT !.alarms[alarm_id].enabled = enabled]
    IN  get_alarm(c2, alarm_id)

(* ------------------------- main.py: API handlers ------------------------ *)
(* The handlers that do more than forward the call to the controller.       *)
api_clock1_on(c) ==
    IF c.stop_latched THEN [c EXCEPT !.exc = HTTP409]
    ELSE LET c1 == clock1_on(c)
         IN  IF ~Raised(c1) /\ c1.ret = "False" THEN [c1 EXCEPT !.exc = HTTP409]
             ELSE Return(c1, "MessageResponse")

api_clock2_on(c) ==
    IF c.stop_latched THEN [c EXCEPT !.exc = HTTP409]
    ELSE LET c1 == clock2_on(c)
         IN  IF ~Raised(c1) /\ c1.ret = "False" THEN [c1 EXCEPT !.exc = HTTP409]
             ELSE Return(c1, "MessageResponse")

api_set_clock1_duty(c, duty) ==
    IF c.stop_latched /\ duty > 0 THEN [c EXCEPT !.exc = HTTP409]
    ELSE LET c1 == set_clock1_duty(c, duty)
         IN  IF ~Raised(c1) /\ c1.ret = "False" THEN [c1 EXCEPT !.exc = HTTP409]
             ELSE Return(c1, "MessageResponse")

api_set_clock2_duty(c, duty) ==
    IF c.stop_latched /\ duty > 0 THEN [c EXCEPT !.exc = HTTP409]
    ELSE LET c1 == set_clock2_duty(c, duty)
         IN  IF ~Raised(c1) /\ c1.ret = "False" THEN [c1 EXCEPT !.exc = HTTP409]
             ELSE Return(c1, "MessageResponse")

api_update_alarm(c, alarm_id, request) ==
    LET c1 == get_alarm(c, alarm_id)
    IN  IF Raised(c1) THEN c1
        ELSE IF c1.ret = "None" THEN [c1 EXCEPT !.exc = HTTP404]
        ELSE Return(update_alarm(c1, alarm_id, request), "AlarmResponse")

api_toggle_alarm(c, alarm_id, enabled) ==
    LET c1 == toggle_alarm(c, alarm_id, enabled)
    IN  IF Raised(c1) THEN c1
        ELSE IF c1.ret = "None" THEN [c1 EXCEPT !.exc = HTTP404]
        ELSE Return(c1, "AlarmResponse")

(* ---------------------- main.py: stop_button_monitor -------------------- *)
(* Variant: the stop is triggered in every pass that reads the button       *)
(* pressed.                                                                 *)
stop_button_monitor_level(c) ==
    LET c1 == read_stop_button(c)
        button_pressed == c1.ret = "True"
        c2 == IF ~Raised(c1) /\ button_pressed THEN trigger_stop(c1) ELSE c1
        c3 == Assign(c2, "button_was_pressed", button_pressed)
    IN  IF ~Raised(c3) THEN [c3 EXCEPT !.monitor_pc = "sleep"]
        ELSE IF IsGPIOError(c3.exc) THEN [c3 EXCEPT !.monitor_pc = "backoff_gpio"]
        ELSE [c3 EXCEPT !.monitor_pc = "backoff_error"]

(* One pass of the loop body, from the read to the next await.  The error   *)
(* a handler caught stays in exc for `last`; the task goes on.              *)
stop_button_monitor(c) ==
    LET c1 == read_stop_button(c)
        button_pressed == c1.ret = "True"
        c2 == IF ~Raised(c1) /\ button_pressed /\ ~c1.button_was_pressed
              THEN trigger_stop(c1) ELSE c1
        c3 == Assign(c2, "button_was_pressed", button_pressed)
    IN  IF ~Raised(c3) THEN [c3 EXCEPT !.monitor_pc = "sleep"]
        ELSE IF IsGPIOError(c3.exc) THEN [c3 EXCEPT !.monitor_pc = "backoff_gpio"]
        ELSE [c3 EXCEPT !.monitor_pc = "backoff_error"]

(* ------------------------ main.py: alarm_scheduler ---------------------- *)
(* task.cancel() on a task that is asleep ends it at its sleep; on a task   *)
(* that has finished it does nothing.                                       *)
cancel(c, tid) ==
    [c EXCEPT !.tasks = Remove(@, tid),
              !.cancelled = IF tid \in DOMAIN c.tasks THEN Append(@, tid) ELSE @]

(* The name the new task gets: the least one no live task and no registry   *)
(* entry of another alarm carries (0 when MaxTasks are in use).             *)
NewTaskId(c, alarm_id) ==
    LET used == (DOMAIN c.tasks) \cup Range(Remove(c.alarm_off_tasks, alarm_id))
        free == (1..MaxTasks) \ used
    IN  IF free = {} THEN 0 ELSE CHOOSE t \in free : \A u \in free : t <= u

(* auto_off after its sleep: the task ends, by returning or by raising.     *)
auto_off(c, tid) ==
    LET t == c.tasks[tid]
        c1 == IF t.clock_id = 1 THEN clock1_off(c) ELSE clock2_off(c)
        c2 == IF Raised(c1) THEN c1
              ELSE [c1 EXCEPT !.alarm_off_tasks = Remove(@, t.alarm_id)]
    IN  [c2 EXCEPT !.tasks = Remove(@, tid)]

(* Variant: the registered task is not cancelled before it is replaced.     *)
schedule_auto_off_no_cancel(c, alarm_id, alarm) ==
    IF Raised(c) THEN c
    ELSE
        LET tid == NewTaskId(c, alarm_id)
            task == [clock_id |-> alarm.clock_id, alarm_id |-> alarm_id,
                     duration |-> alarm.duration, due |-> c.now + alarm.duration]
        IN  [c EXCEPT !.tasks = Put(@, tid, task),
                      !.alarm_off_tasks = Put(@, alarm_id, tid)]

(* Lines 150-165: cancel the registered task, create and register a new one. *)
schedule_auto_off(c, alarm_id, alarm) ==
    IF Raised(c) THEN c
    ELSE
        LET c1 == IF alarm_id \in DOMAIN c.alarm_off_tasks
                  THEN cancel(c, c.alarm_off_tasks[alarm_id]) ELSE c
            tid == NewTaskId(c1, alarm_id)
            task == [clock_id |-> alarm.clock_id, alarm_id |-> alarm_id,
                     duration |-> alarm.duration, due |-> c1.now + alarm.duration]
        IN  [c1 EXCEPT !.tasks = Put(@, tid, task),
                       !.alarm_off_tasks = Put(@, alarm_id, tid)]

(* Variant: the trigger time is not recorded.                               *)
trigger_alarm_unmarked(c, alarm_id, alarm) ==
    LET c1 == IF alarm.clock_id = 1 THEN clock1_on(c) ELSE clock2_on(c)
        c3 == IF alarm.days = <<"once">> THEN disable_once_alarm(c1, alarm_id) ELSE c1
        c4 == IF alarm.duration > 0 THEN schedule_auto_off(c3, alarm_id, alarm) ELSE c3
    IN  IF Raised(c4) THEN c4 ELSE [c4 EXCEPT !.fired = Append(@, alarm_id)]

(* Lines 137-165 for one alarm of the query's result.                       *)
trigger_alarm(c, alarm_id, alarm) ==
    LET c1 == IF alarm.clock_id = 1 THEN clock1_on(c) ELSE clock2_on(c)
        c2 == mark_triggered(c1, alarm_id)
        c3 == IF alarm.days = <<"once">> THEN disable_once_alarm(c2, alarm_id) ELSE c2
        c4 == IF alarm.duration > 0 THEN schedule_auto_off(c3, alarm_id, alarm) ELSE c3
    IN  IF Raised(c4) THEN c4 ELSE [c4 EXCEPT !.fired = Append(@, alarm_id)]

RECURSIVE for_alarm_in(_, _, _)
for_alarm_in(c, snapshot, rows) ==
    IF rows = <<>> \/ Raised(c) THEN c
    ELSE LET alarm_id == Head(rows)
             alarm == snapshot[alarm_id]
             c1 == IF matches_time(alarm, c.now)
                   THEN trigger_alarm(c, alarm_id, alarm) ELSE c
         IN  for_alarm_in(c1, snapshot, Tail(rows))

(* Variant: the pass does not look at the stop latch.                       *)
alarm_scheduler_unlatched(c, rows) ==
    LET c1 == get_enabled_alarms(c)
        c2 == for_alarm_in(c1, c1.alarms, rows)
    IN  IF Raised(c2) THEN [c2 EXCEPT !.scheduler_pc = "backoff"]
        ELSE [c2 EXCEPT !.scheduler_pc = "sleep"]

(* One pass of the loop body, from datetime.now() to the next await; rows   *)
(* is what get_enabled_alarms returns.                                      *)
alarm_scheduler(c, rows) ==
    IF c.stop_latched THEN [c EXCEPT !.scheduler_pc = "sleep_latched"]
    ELSE
        LET c1 == get_enabled_alarms(c)
            c2 == for_alarm_in(c1, c1.alarms, rows)
        IN  IF Raised(c2) THEN [c2 EXCEPT !.scheduler_pc = "backoff"]
            ELSE [c2 EXCEPT !.scheduler_pc = "sleep"]

(* --------------------------- main.py: lifespan -------------------------- *)
(* Start-up: initialize the controller, open the database, create the two   *)
(* background tasks.  Any exception ends the start-up.                      *)
lifespan_startup(c) ==
    LET c1 == initialize(c)
        c2 == db_execute(c1)
    IN  IF Raised(c2) THEN [c2 EXCEPT !.app = "failed"]
        ELSE [c2 EXCEPT !.app = "serving",
                        !.monitor_pc = IF STOP_LATCH THEN "created" ELSE @,
                        !.scheduler_pc = "created"]

(* task.cancel() on a loop task: CancelledError is thrown into the task     *)
(* where it is suspended, when the event loop next runs it.                 *)
CancelRequested(pc) ==
    CASE pc = "created" -> "cancel@created"
      [] pc = "sleep" -> "cancel@sleep"
      [] pc = "sleep_latched" -> "cancel@sleep_latched"
      [] pc = "backoff" -> "cancel@backoff"
      [] pc = "backoff_gpio" -> "cancel@backoff_gpio"
      [] pc = "backoff_error" -> "cancel@backoff_error"
      [] OTHER -> pc

(* Variant: the CancelledError of the loop's sleep is handled as an error   *)
(* of the pass, by the clause for Exception.                                *)
monitor_cancelled_swallowed(c) ==
    CASE c.monitor_pc = "cancel@sleep" -> [c EXCEPT !.monitor_pc = "backoff_error"]
      [] c.monitor_pc \in {"cancel@backoff_gpio", "cancel@backoff_error", "cancel@created"} ->
             [c EXCEPT !.monitor_pc = "cancelled"]
      [] OTHER -> c

(* stop_button_monitor receives CancelledError.  At the sleep of line 103,  *)
(* inside the try, the clause of lines 108-110 logs and raises it again; at *)
(* a back-off sleep, inside a handler, no clause applies and it propagates; *)
(* a task that never ran ends without running.                              *)
monitor_cancelled(c) ==
    CASE c.monitor_pc = "cancel@sleep" -> [c EXCEPT !.monitor_pc = "cancelled"]
      [] c.monitor_pc \in {"cancel@backoff_gpio", "cancel@backoff_error", "cancel@created"} ->
             [c EXCEPT !.monitor_pc = "cancelled"]
      [] OTHER -> c

(* alarm_scheduler receives CancelledError: at the sleeps of lines 132 and  *)
(* 167 the clause of lines 169-171 raises it again; at the back-off sleep   *)
(* of line 174 it propagates.                                               *)
scheduler_cancelled(c) ==
    CASE c.scheduler_pc \in {"cancel@sleep", "cancel@sleep_latched"} ->
             [c EXCEPT !.scheduler_pc = "cancelled"]
      [] c.scheduler_pc \in {"cancel@backoff", "cancel@created"} ->
             [c EXCEPT !.scheduler_pc = "cancelled"]
      [] OTHER -> c

(* lifespan after its yield, up to `await task` of the monitor task.        *)
lifespan_cancel_monitor(c) ==
    [c EXCEPT !.monitor_pc = CancelRequested(@), !.app = "await_monitor"]

(* ... from there up to `await task` of the scheduler task.                 *)
lifespan_cancel_scheduler(c) ==
    [c EXCEPT !.scheduler_pc = CancelRequested(@), !.app = "await_scheduler"]

RECURSIVE cancel_each(_, _)
cancel_each(c, tids) ==
    IF tids = {} THEN c
    ELSE LET tid == CHOOSE t \in tids : \A u \in tids : t <= u
         IN  cancel_each(cancel(c, tid), tids \ {tid})

(* ... and from there to the end: lines 220-227.  An exception of cleanup() *)
(* leaves the lifespan.                                                     *)
lifespan_finish(c) ==
    LET c1 == cancel_each(c, Range(c.alarm_off_tasks))
        c2 == [c1 EXCEPT !.alarm_off_tasks = EmptyDict]
        c3 == cleanup(c2)
    IN  IF Raised(c3) THEN [c3 EXCEPT !.app = "failed"]
        ELSE [c3 EXCEPT !.app = "stopped"]

(* --------------------------- pwm.py: SoftwarePWM ------------------------ *)
(* A SoftwarePWM object: pin, frequency, duty, running (_running) and task  *)
(* (_task: a task id, 0 for None).  write_func is the backend's write.  A   *)
(* toggling task: the object it belongs to (chan), where it is suspended    *)
(* (pc) and the period it computed when it started, as <<1, frequency>>.    *)
ZeroDivisionError == "ZeroDivisionError"

NewChannelId(c) ==
    LET free == (1..MaxChannels) \ DOMAIN c.channels
    IN  IF free = {} THEN 0 ELSE CHOOSE i \in free : \A j \in free : i <= j

SoftwarePWM_init(c, pin, frequency) ==
    IF Raised(c) THEN c
    ELSE LET self == NewChannelId(c)
         IN  [c EXCEPT !.channels = Put(@, self, [pin |-> pin, frequency |-> frequency,
                                                   duty |-> 0, running |-> FALSE,
                                                   task |-> 0]),
                       !.val = self]

(* The task ends: its coroutine has returned or raised.                     *)
EndTask(c, tid) == [c EXCEPT !.pwm_tasks = Remove(@, tid)]

(* The task is suspended in asyncio.sleep, unless the write before raised.  *)
Suspend(c, tid, pc) ==
    IF Raised(c) THEN EndTask(c, tid) ELSE [c EXCEPT !.pwm_tasks[tid].pc = pc]

(* Lines 56-68: the loop test and the first write of a period.              *)
pwm_loop_period(c, tid) ==
    LET self == c.channels[c.pwm_tasks[tid].chan]
    IN  IF ~self.running THEN EndTask(c, tid)
        ELSE IF self.duty <= 0 THEN Suspend(write(c, self.pin, 0), tid, "sleep_period")
        ELSE IF self.duty >= 100 THEN Suspend(write(c, self.pin, 1), tid, "sleep_period")
        ELSE Suspend(write(c, self.pin, 1), tid, "sleep_on")

(* Variant: the duty is read again after the on-time, and a duty of 100     *)
(* then skips the write of 0.                                               *)
pwm_loop_rereads(c, tid) ==
    LET t == c.pwm_tasks[tid]
        self == c.channels[t.chan]
    IN  IF t.pc = "created"
        THEN IF self.frequency = 0
             THEN EndTask([c EXCEPT !.exc = ZeroDivisionError], tid)
             ELSE pwm_loop_period([c EXCEPT !.pwm_tasks[tid].period = <<1, self.frequency>>],
                                  tid)
        ELSE IF t.pc = "sleep_on" /\ self.running /\ self.duty < 100
        THEN Suspend(write(c, self.pin, 0), tid, "sleep_off")
        ELSE pwm_loop_period(c, tid)

(* _pwm_loop from where the task is suspended to its next await or its end. *)
pwm_loop(c, tid) ==
    LET t == c.pwm_tasks[tid]
        self == c.channels[t.chan]
    IN  IF t.pc = "created"
        THEN IF self.frequency = 0
             THEN EndTask([c EXCEPT !.exc = ZeroDivisionError], tid)
             ELSE pwm_loop_period([c EXCEPT !.pwm_tasks[tid].period = <<1, self.frequency>>],
                                  tid)
        ELSE IF t.pc = "sleep_on" /\ self.running
        THEN Suspend(write(c, self.pin, 0), tid, "sleep_off")
        ELSE pwm_loop_period(c, tid)

(* asyncio.create_task: the id the new task gets is the least one that no   *)
(* live task carries and no object refers to.                               *)
NewPwmTaskId(c) ==
    LET used == (DOMAIN c.pwm_tasks) \cup {c.channels[i].task : i \in DOMAIN c.channels}
        free == (1..MaxPwmTasks) \ used
    IN  IF free = {} THEN 0 ELSE CHOOSE t \in free : \A u \in free : t <= u

(* Variant: a task is created whether or not the channel is running.        *)
SoftwarePWM_start_unguarded(c, self) ==
    IF Raised(c) THEN c
    ELSE LET tid == NewPwmTaskId(c)
         IN  [c EXCEPT !.channels[self].running = TRUE,
                       !.channels[self].task = tid,
                       !.pwm_tasks = Put(@, tid, [chan |-> self, pc |-> "created",
                                                  period |-> <<>>])]

SoftwarePWM_start(c, self) ==
    IF Raised(c) \/ c.channels[self].running THEN c
    ELSE LET tid == NewPwmTaskId(c)
         IN  [c EXCEPT !.channels[self].running = TRUE,
                       !.channels[self].task = tid,
                       !.pwm_tasks = Put(@, tid, [chan |-> self, pc |-> "created",
                                                  period |-> <<>>])]

(* Variant: the pin is not written after the task is cancelled.             *)
SoftwarePWM_stop_no_write(c, self) ==
    IF Raised(c) THEN c
    ELSE LET c1 == [c EXCEPT !.channels[self].running = FALSE]
         IN  IF c1.channels[self].task # 0
             THEN [c1 EXCEPT !.pwm_tasks = Remove(@, c1.channels[self].task),
                             !.channels[self].task = 0]
             ELSE c1

(* task.cancel(): a task that is suspended, or was created and has not run  *)
(* yet, gets CancelledError at its await and ends without running further;  *)
(* on a task that has ended it does nothing.                                *)
SoftwarePWM_stop(c, self) ==
    IF Raised(c) THEN c
    ELSE LET c1 == [c EXCEPT !.channels[self].running = FALSE]
             c2 == IF c1.channels[self].task # 0
                   THEN [c1 EXCEPT !.pwm_tasks = Remove(@, c1.channels[self].task),
                                   !.channels[self].task = 0]
                   ELSE c1
         IN  write(c2, c2.channels[self].pin, 0)

SoftwarePWM_set_duty(c, self, duty) ==
    IF Raised(c) THEN c
    ELSE [c EXCEPT !.channels[self].duty = Max(0, Min(100, duty))]

SoftwarePWM_set_frequency(c, self, frequency) ==
    IF Raised(c) THEN c
    ELSE [c EXCEPT !.channels[self].frequency = Max(1, Min(10000, frequency))]

(* ---------------------------- pwm.py: PWMManager ------------------------ *)
(* _channels is a dict: the names in insertion order, each with its object. *)
NoManager == [exists |-> FALSE, default_frequency |-> 500, channels |-> <<>>]

PWMManager_init(c, default_frequency) ==
    [c EXCEPT !.manager = [exists |-> TRUE, default_frequency |-> default_frequency,
                           channels |-> <<>>]]

(* self._channels[name] = obj: a new key goes last, a key that is there     *)
(* keeps its place.                                                         *)
DictSet(d, name, obj) ==
    IF \E i \in DOMAIN d : d[i].name = name
    THEN [i \in DOMAIN d |-> IF d[i].name = name THEN [name |-> name, obj |-> obj] ELSE d[i]]
    ELSE Append(d, [name |-> name, obj |-> obj])

PWMManager_add_channel(c, name, pin, frequency) ==
    LET freq == IF frequency = <<>> \/ frequency = <<0>>
                THEN c.manager.default_frequency ELSE frequency[1]
        c1 == SoftwarePWM_init(c, pin, freq)
    IN  [c1 EXCEPT !.manager.channels = DictSet(@, name, c1.val)]

RECURSIVE start_each(_, _)
start_each(c, d) ==
    IF d = <<>> THEN c ELSE start_each(SoftwarePWM_start(c, Head(d).obj), Tail(d))

PWMManager_start_all(c) == start_each(c, c.manager.channels)

RECURSIVE stop_each(_, _)
stop_each(c, d) ==
    IF d = <<>> THEN c ELSE stop_each(SoftwarePWM_stop(c, Head(d).obj), Tail(d))

PWMManager_stop_all(c) == stop_each(c, c.manager.channels)

PWMManager_set_duty(c, name, duty) ==
    LET d == c.manager.channels
    IN  IF \E i \in DOMAIN d : d[i].name = name
        THEN SoftwarePWM_set_duty(c, d[CHOOSE i \in DOMAIN d : d[i].name = name].obj, duty)
        ELSE c

PWMManager_get_duty(c, name) ==
    LET d == c.manager.channels
    IN  IF \E i \in DOMAIN d : d[i].name = name
        THEN [c EXCEPT !.ret = "int",
                       !.val = c.channels[d[CHOOSE i \in DOMAIN d : d[i].name = name].obj].duty]
        ELSE Return(c, "None")

(* ------------------------------- the state ------------------------------ *)
(* What `last` holds of a finished step.                                    *)
Outcome(c, op, arg) ==
    [op |-> op, arg |-> arg, exc |-> c.exc, ret |-> c.ret,
     status |-> c.status, calls |-> c.calls, fired |-> c.fired,
     cancelled |-> c.cancelled]

Event(op) ==
    [op |-> op, arg |-> 0, exc |-> NoExc, ret |-> "None", status |-> <<>>,
     calls |-> <<>>, fired |-> <<>>, cancelled |-> <<>>]

(* The program's state after the run.                                       *)
Commit(c) ==
    /\ pins' = c.pins
    /\ modes' = c.modes
    /\ initialized' = c.initialized
    /\ clock1_enabled' = c.clock1_enabled
    /\ clock2_enabled' = c.clock2_enabled
    /\ clock1_duty' = c.clock1_duty
    /\ clock2_duty' = c.clock2_duty
    /\ stop_latched' = c.stop_latched
    /\ app' = c.app
    /\ monitor_pc' = c.monitor_pc
    /\ button_was_pressed' = c.button_was_pressed
    /\ scheduler_pc' = c.scheduler_pc
    /\ alarms' = c.alarms
    /\ alarm_off_tasks' = c.alarm_off_tasks
    /\ tasks' = c.tasks
    /\ channels' = c.channels
    /\ manager' = c.manager
    /\ pwm_tasks' = c.pwm_tasks
    /\ UNCHANGED <<backend, button, now>>

(* The run is evaluated once, then committed.                               *)
Run(c, op, arg) ==
    \E r \in {c} :
        /\ Commit(r)
        /\ last' = Outcome(r, op, arg)

(* A run while no stop and turn-on are held in flight together.  Nothing    *)
(* runs once the lifespan has raised: the server exits.                     *)
Do(c, op, arg) ==
    /\ race.k = 0
    /\ app # "failed"
    /\ Run(c, op, arg)
    /\ UNCHANGED <<histvars, race>>

(* The gpio commands that may fail: none of the mock backend's.             *)
GpioFaults(k) == IF backend = "mock" THEN {0} ELSE 0..k

NoRace == [k |-> 0, on |-> "none", stop |-> "none", done |-> <<>>]

(* The rows the database file holds when the program starts.                *)
AlarmTable ==
    [id \in {1, 2} |->
        IF id = 1
        THEN [hour |-> 0, minute |-> 0, second |-> 1, clock_id |-> 1, enabled |-> TRUE,
              days |-> <<"once">>, duration |-> 1, last_triggered |-> <<>>]
        ELSE [hour |-> 0, minute |-> 0, second |-> 1, clock_id |-> 2, enabled |-> TRUE,
              days |-> <<"daily">>, duration |-> 0, last_triggered |-> <<>>]]

(* MotorController.__init__ with either backend; nothing configured or      *)
(* written, no task created, no auto-off registered.                        *)
Init ==
    /\ backend \in {"mock", "wiringop"}
    /\ pins = EmptyDict
    /\ modes = EmptyDict
    /\ button = FALSE
    /\ initialized = FALSE
    /\ clock1_enabled = FALSE
    /\ clock2_enabled = FALSE
    /\ clock1_duty = 100
    /\ clock2_duty = 100
    /\ stop_latched = FALSE
    /\ channels = EmptyDict
    /\ manager = NoManager
    /\ pwm_tasks = EmptyDict
    /\ app = "down"
    /\ monitor_pc = "none"
    /\ button_was_pressed = FALSE
    /\ scheduler_pc = "none"
    /\ now = 0
    /\ alarms = AlarmTable
    /\ alarm_off_tasks = EmptyDict
    /\ tasks = EmptyDict
    /\ press_pending = FALSE
    /\ prev_sample = "none"
    /\ race = NoRace
    /\ last = Event("__init__")

(* ----------------------- calls of controller methods -------------------- *)
(* A method called by whoever holds the controller.  f is the gpio command  *)
(* that fails in this call, 0 when none does.                               *)
CallInitialize ==
    \E f \in (IF initialized THEN {0} ELSE GpioFaults(14)) :
        Do(initialize(Call(f, GpioCommandError)), "initialize", 0)

CallClock1On ==
    \E f \in GpioFaults(1) : Do(clock1_on(Call(f, GpioCommandError)), "clock1_on", 0)

CallClock1Off ==
    \E f \in GpioFaults(1) : Do(clock1_off(Call(f, GpioCommandError)), "clock1_off", 0)

CallClock2On ==
    \E f \in GpioFaults(1) : Do(clock2_on(Call(f, GpioCommandError)), "clock2_on", 0)

CallClock2Off ==
    \E f \in GpioFaults(1) : Do(clock2_off(Call(f, GpioCommandError)), "clock2_off", 0)

CallAllOff ==
    \E f \in GpioFaults(2) : Do(all_off(Call(f, GpioCommandError)), "all_off", 0)

CallSetClock1Duty ==
    \E f \in GpioFaults(1), d \in DutyInputs :
        Do(set_clock1_duty(Call(f, GpioCommandError), d), "set_clock1_duty", d)

CallSetClock2Duty ==
    \E f \in GpioFaults(1), d \in DutyInputs :
        Do(set_clock2_duty(Call(f, GpioCommandError), d), "set_clock2_duty", d)

CallReadStopButton ==
    \E f \in GpioFaults(1), kind \in {GpioCommandError, ReadValueError} :
        Do(read_stop_button(Call(f, kind)), "read_stop_button", 0)

CallTriggerStop ==
    \E f \in GpioFaults(2) : Do(trigger_stop(Call(f, GpioCommandError)), "trigger_stop", 0)

CallClearStopLatch ==
    Do(clear_stop_latch(Call(0, GpioCommandError)), "clear_stop_latch", 0)

CallGetStatus ==
    \E f \in GpioFaults(1), kind \in {GpioCommandError, ReadValueError} :
        Do(get_status(Call(f, kind)), "get_status", 0)

CallCleanup ==
    \E f \in GpioFaults(2) : Do(cleanup(Call(f, GpioCommandError)), "cleanup", 0)

(* The person at the device presses or lets go of the stop button.          *)
PressButton ==
    /\ race.k = 0
    /\ ~button
    /\ button' = TRUE
    /\ press_pending' = TRUE
    /\ UNCHANGED prev_sample
    /\ last' = Event("press_button")
    /\ UNCHANGED <<ctlvars, appvars, pwmvars, race>>

ReleaseButton ==
    /\ race.k = 0
    /\ button
    /\ button' = FALSE
    /\ press_pending' = FALSE
    /\ UNCHANGED prev_sample
    /\ last' = Event("release_button")
    /\ UNCHANGED <<ctlvars, appvars, pwmvars, race>>

(* The controller as an object: its methods in any order, and the button.   *)
Next ==
    \/ CallInitialize
    \/ CallClock1On
    \/ CallClock1Off
    \/ CallClock2On
    \/ CallClock2Off
    \/ CallAllOff
    \/ CallSetClock1Duty
    \/ CallSetClock2Duty
    \/ CallReadStopButton
    \/ CallTriggerStop
    \/ CallClearStopLatch
    \/ CallGetStatus
    \/ CallCleanup
    \/ PressButton
    \/ ReleaseButton

Spec == Init /\ [][Next]_vars

(* ------------------------- the running application ---------------------- *)
(* lifespan up to its yield.  f is the command that fails, if any.          *)
Startup ==
    /\ app = "down"
    /\ \E f \in 0..15 :
           Do(lifespan_startup(Call(f, GpioCommandError)), "lifespan_startup", 0)

(* The API handlers, served once the lifespan has started the application.  *)
ApiGetStatus == app = "serving" /\ CallGetStatus

ApiClock1On ==
    /\ app = "serving"
    /\ \E f \in GpioFaults(1) :
           Do(api_clock1_on(Call(f, GpioCommandError)), "api_clock1_on", 0)

ApiClock1Off == app = "serving" /\ CallClock1Off

ApiClock2On ==
    /\ app = "serving"
    /\ \E f \in GpioFaults(1) :
           Do(api_clock2_on(Call(f, GpioCommandError)), "api_clock2_on", 0)

ApiClock2Off == app = "serving" /\ CallClock2Off

ApiAllOff == app = "serving" /\ CallAllOff

ApiSetClock1Duty ==
    /\ app = "serving"
    /\ \E f \in GpioFaults(1), d \in ApiDutyInputs :
           Do(api_set_clock1_duty(Call(f, GpioCommandError), d), "api_set_clock1_duty", d)

ApiSetClock2Duty ==
    /\ app = "serving"
    /\ \E f \in GpioFaults(1), d \in ApiDutyInputs :
           Do(api_set_clock2_duty(Call(f, GpioCommandError), d), "api_set_clock2_duty", d)

ApiTriggerStop == app = "serving" /\ CallTriggerStop

ApiClearStop == app = "serving" /\ CallClearStopLatch

(* The monitor task runs one pass of its loop: at its creation, or when its *)
(* sleep has elapsed.                                                       *)
MonitorRunnable == monitor_pc \in {"created", "sleep", "backoff_gpio", "backoff_error"}

(* The pass stopped the clocks: the read and both writes of trigger_stop.   *)
MonitorStopped(l) == l.op = "stop_button_monitor" /\ l.exc = NoExc /\ Len(l.calls) = 3

(* What the pass read of the button, if its read returned; else prev.       *)
Sampled(l, prev) ==
    IF l.calls # <<>> /\ l.calls[1][1] = "read"
    THEN (IF l.calls[1][3] = 0 THEN "pressed" ELSE "released")
    ELSE prev

MonitorPass(f, kind) ==
    /\ MonitorRunnable
    /\ Run(stop_button_monitor(Call(f, kind)), "stop_button_monitor", 0)
    /\ press_pending' = (press_pending /\ ~MonitorStopped(last'))
    /\ prev_sample' = Sampled(last', prev_sample)

MonitorPoll ==
    /\ race.k = 0
    /\ \E f \in GpioFaults(3), kind \in {GpioCommandError, ReadValueError} :
           MonitorPass(f, kind)
    /\ UNCHANGED race

(* The scheduler task runs one pass of its loop.                            *)
SchedulerRunnable == scheduler_pc \in {"created", "sleep", "sleep_latched", "backoff"}

SchedulerPass(f) ==
    /\ SchedulerRunnable
    /\ \E rows \in EnabledRows(alarms) :
           LET c == alarm_scheduler(Call(f, GpioCommandError), rows)
           IN  /\ 0 \notin DOMAIN c.tasks
               /\ Run(c, "alarm_scheduler", 0)
    /\ UNCHANGED histvars

(* The commands of a pass that may fail: none while latched; else the query *)
(* and, for each alarm that is due, the gpio write and the two updates.     *)
SchedulerFaults ==
    IF stop_latched THEN {0}
    ELSE 0..(1 + 3 * Cardinality({id \in DOMAIN alarms :
                                     alarms[id].enabled /\ matches_time(alarms[id], now)}))

SchedulerTick ==
    /\ race.k = 0
    /\ \E f \in SchedulerFaults : SchedulerPass(f)
    /\ UNCHANGED race

(* An auto-off task whose sleep has elapsed runs to its end.                *)
AutoOff ==
    \E tid \in DOMAIN tasks, f \in GpioFaults(1) :
        /\ tasks[tid].due <= now
        /\ Do(auto_off(Call(f, GpioCommandError), tid), "auto_off", tid)

(* A second passes.                                                         *)
AdvanceTime ==
    /\ race.k = 0
    /\ app = "serving"
    /\ now < MaxTime
    /\ now' = now + 1
    /\ last' = Event("advance_time")
    /\ UNCHANGED <<ctlvars, button, pwmvars, app, monitor_pc, button_was_pressed,
                   scheduler_pc, alarms, alarm_off_tasks, tasks, histvars, race>>

(* ---------------- a stop and a turn-on in flight together --------------- *)
(* Both requests are accepted before either runs: a turn-on of clock k by   *)
(* the API handler or by the scheduler pass that finds an alarm of clock k  *)
(* due, and a stop by the API handler or by the monitor pass that finds the *)
(* button newly pressed.  The event loop then runs the two in either order, *)
(* each to completion; race.done lists them as they complete.  A stop whose *)
(* all_off raised has failed (API) or is tried again (monitor).             *)
AlarmDue(k) ==
    \E id \in DOMAIN alarms : alarms[id].clock_id = k /\ matches_time(alarms[id], now)

RaceBegin ==
    /\ race.k = 0
    /\ app = "serving"
    /\ \E k \in {1, 2}, onsrc \in {"api", "scheduler"}, stopsrc \in {"api", "monitor"} :
           /\ onsrc = "scheduler" => SchedulerRunnable /\ AlarmDue(k)
           /\ stopsrc = "monitor" =>
                  /\ backend = "wiringop"
                  /\ MonitorRunnable /\ button /\ ~button_was_pressed
           /\ race' = [k |-> k, on |-> onsrc, stop |-> stopsrc, done |-> <<>>]
    /\ last' = Event("requests_in_flight")
    /\ UNCHANGED <<ctlvars, appvars, button, pwmvars, histvars>>

RaceTurnOn ==
    /\ race.k # 0
    /\ "on" \notin Range(race.done)
    /\ \/ /\ race.on = "api" /\ race.k = 1
          /\ \E f \in GpioFaults(1) :
                 Run(api_clock1_on(Call(f, GpioCommandError)), "api_clock1_on", 0)
          /\ UNCHANGED histvars
       \/ /\ race.on = "api" /\ race.k = 2
          /\ \E f \in GpioFaults(1) :
                 Run(api_clock2_on(Call(f, GpioCommandError)), "api_clock2_on", 0)
          /\ UNCHANGED histvars
       \/ /\ race.on = "scheduler"
          /\ \E f \in SchedulerFaults : SchedulerPass(f)
    /\ race' = [race EXCEPT !.done = Append(@, "on")]

RaceStop ==
    /\ race.k # 0
    /\ Range(race.done) \cap {"stop", "stop_failed"} = {}
    /\ \/ /\ race.stop = "api"
          /\ \E f \in GpioFaults(2) :
                 Run(trigger_stop(Call(f, GpioCommandError)), "trigger_stop", 0)
          /\ UNCHANGED histvars
          /\ race' = [race EXCEPT !.done =
                         Append(@, IF last'.exc = NoExc THEN "stop" ELSE "stop_failed")]
       \/ /\ race.stop = "monitor"
          /\ \E f \in GpioFaults(3), kind \in {GpioCommandError, ReadValueError} :
                 MonitorPass(f, kind)
          /\ race' = IF MonitorStopped(last')
                     THEN [race EXCEPT !.done = Append(@, "stop")] ELSE race

RaceEnd ==
    /\ race.k # 0
    /\ Len(race.done) = 2
    /\ race' = NoRace
    /\ last' = Event("requests_done")
    /\ UNCHANGED <<ctlvars, appvars, button, pwmvars, histvars>>

(* The application while a stop and a turn-on are held in flight together:  *)
(* start-up, the wall clock that makes an alarm due, the button, the API's  *)
(* clear-stop, and the two requests in either order.                        *)
NextRace ==
    \/ Startup
    \/ AdvanceTime
    \/ PressButton
    \/ ReleaseButton
    \/ ApiClearStop
    \/ RaceBegin
    \/ RaceTurnOn
    \/ RaceStop
    \/ RaceEnd

SpecRace == Init /\ [][NextRace]_vars

(* The controller under the application's callers and its own methods: the  *)
(* API, the scheduler's passes, the auto-off tasks, initialize and cleanup. *)
NextLatch ==
    \/ Startup
    \/ CallInitialize
    \/ CallCleanup
    \/ CallClock1On
    \/ CallClock1Off
    \/ CallClock2On
    \/ CallClock2Off
    \/ CallAllOff
    \/ CallSetClock1Duty
    \/ CallSetClock2Duty
    \/ CallTriggerStop
    \/ CallClearStopLatch
    \/ SchedulerTick
    \/ AutoOff
    \/ AdvanceTime

SpecLatch == Init /\ [][NextLatch]_vars

(* The stop-button monitor in the running application.  asyncio resumes the *)
(* task each time its sleep has elapsed, so a pass of the loop is taken     *)
(* again and again; the gpio commands of a pass may fail, but not for ever. *)
MonitorPollOk ==
    /\ race.k = 0
    /\ MonitorPass(0, GpioCommandError)
    /\ UNCHANGED race

NextMonitor ==
    \/ Startup
    \/ PressButton
    \/ ReleaseButton
    \/ MonitorPoll
    \/ ApiClock1On
    \/ ApiClock2On
    \/ ApiClearStop

SpecMonitor == Init /\ [][NextMonitor]_vars /\ WF_vars(MonitorPollOk)

(* ---------------------- the scheduler and the alarm API ------------------ *)
(* PUT /api/v1/alarms/{id} and PATCH /api/v1/alarms/{id}/toggle.  f is the  *)
(* sqlite statement that fails, if any.                                     *)
ApiUpdateAlarm ==
    /\ app = "serving"
    /\ \E alarm_id \in AlarmIdInputs, request \in AlarmRequests, f \in 0..3 :
           Do(api_update_alarm(Call(f, GpioCommandError), alarm_id, request),
              "api_update_alarm", alarm_id)

ApiToggleAlarm ==
    /\ app = "serving"
    /\ \E alarm_id \in AlarmIdInputs, enabled \in BOOLEAN, f \in 0..2 :
           Do(api_toggle_alarm(Call(f, GpioCommandError), alarm_id, enabled),
              "api_toggle_alarm", alarm_id)

(* The scheduler in the running application: its passes and the auto-off    *)
(* tasks they create, the wall clock, the stop latch set and cleared and    *)
(* the alarms edited through the API.                                       *)
NextScheduler ==
    \/ Startup
    \/ AdvanceTime
    \/ SchedulerTick
    \/ AutoOff
    \/ ApiTriggerStop
    \/ ApiClearStop
    \/ ApiUpdateAlarm
    \/ ApiToggleAlarm

SpecScheduler == Init /\ [][NextScheduler]_vars

(* ------------------------------- shutdown ------------------------------- *)
(* The server hands control back to the lifespan, which cancels and awaits  *)
(* the two loop tasks in turn; while it waits, the event loop runs whatever *)
(* is ready.                                                                *)
ShutdownCancelMonitor ==
    /\ app = "serving"
    /\ Do(lifespan_cancel_monitor(Call(0, GpioCommandError)), "lifespan_cancel", "monitor")

MonitorCancelled ==
    /\ monitor_pc \in {"cancel@created", "cancel@sleep", "cancel@backoff_gpio",
                       "cancel@backoff_error"}
    /\ Do(monitor_cancelled(Call(0, GpioCommandError)), "monitor_cancelled", monitor_pc)

ShutdownCancelScheduler ==
    /\ app = "await_monitor"
    /\ monitor_pc = "cancelled"
    /\ Do(lifespan_cancel_scheduler(Call(0, GpioCommandError)), "lifespan_cancel", "scheduler")

SchedulerCancelled ==
    /\ scheduler_pc \in {"cancel@created", "cancel@sleep", "cancel@sleep_latched",
                         "cancel@backoff"}
    /\ Do(scheduler_cancelled(Call(0, GpioCommandError)), "scheduler_cancelled", scheduler_pc)

ShutdownFinish ==
    /\ app = "await_scheduler"
    /\ scheduler_pc = "cancelled"
    /\ \E f \in GpioFaults(2) :
           Do(lifespan_finish(Call(f, GpioCommandError)), "lifespan_finish", 0)

(* The application from start-up to shutdown: the two loops, the auto-off   *)
(* tasks, the button, the wall clock and the API's clear-stop.              *)
NextShutdown ==
    \/ Startup
    \/ AdvanceTime
    \/ PressButton
    \/ ReleaseButton
    \/ MonitorPoll
    \/ SchedulerTick
    \/ AutoOff
    \/ ApiClearStop
    \/ ShutdownCancelMonitor
    \/ MonitorCancelled
    \/ ShutdownCancelScheduler
    \/ SchedulerCancelled
    \/ ShutdownFinish

SpecShutdown == Init /\ [][NextShutdown]_vars

(* ----------------------- two alarms of the same clock ------------------- *)
(* The database file holds two alarms of clock 1: one rings for one second  *)
(* at 00:00:00, the other for two seconds at 00:00:01.                      *)
SameClockTable ==
    [id \in {1, 2} |->
        IF id = 1
        THEN [hour |-> 0, minute |-> 0, second |-> 0, clock_id |-> 1, enabled |-> TRUE,
              days |-> <<"daily">>, duration |-> 1, last_triggered |-> <<>>]
        ELSE [hour |-> 0, minute |-> 0, second |-> 1, clock_id |-> 1, enabled |-> TRUE,
              days |-> <<"daily">>, duration |-> 2, last_triggered |-> <<>>]]

InitSameClock ==
    /\ backend \in {"mock", "wiringop"}
    /\ pins = EmptyDict
    /\ modes = EmptyDict
    /\ button = FALSE
    /\ initialized = FALSE
    /\ clock1_enabled = FALSE
    /\ clock2_enabled = FALSE
    /\ clock1_duty = 100
    /\ clock2_duty = 100
    /\ stop_latched = FALSE
    /\ channels = EmptyDict
    /\ manager = NoManager
    /\ pwm_tasks = EmptyDict
    /\ app = "down"
    /\ monitor_pc = "none"
    /\ button_was_pressed = FALSE
    /\ scheduler_pc = "none"
    /\ now = 0
    /\ alarms = SameClockTable
    /\ alarm_off_tasks = EmptyDict
    /\ tasks = EmptyDict
    /\ press_pending = FALSE
    /\ prev_sample = "none"
    /\ race = NoRace
    /\ last = Event("__init__")

NextSameClock ==
    \/ Startup
    \/ AdvanceTime
    \/ SchedulerTick
    \/ AutoOff

SpecSameClock == InitSameClock /\ [][NextSameClock]_vars

(* ------------------------- Alarm.matches_time alone --------------------- *)
(* The alarms and the times matches_time is called with: an alarm set for   *)
(* 07:30:00, enabled or not, with each form of the days column; the times   *)
(* <<weekday, hour, minute, second>> that agree or disagree with it in each *)
(* field, on a day inside and outside the weekday lists.                    *)
DaysInputs ==
    {<<"daily">>, <<"once">>, <<"mon", "wed", "fri">>, <<"MON", " Wed">>, <<"sun">>}

AlarmInputs ==
    {[hour |-> 7, minute |-> 30, second |-> 0, clock_id |-> 1, enabled |-> e,
      days |-> d, duration |-> 0, last_triggered |-> <<>>] :
        e \in BOOLEAN, d \in DaysInputs}

NowInputs == {0, 2, 3, 6} \X {7, 8} \X {30, 31} \X {0, 1}

(* datetime(weekday, hour, minute, second) on the model's wall clock.       *)
Datetime(dt) == ((dt[1] * 24 + dt[2]) * 60 + dt[3]) * 60 + dt[4]

(* One alarm row and one time; last.arg keeps the time's fields.            *)
InitMatches ==
    /\ backend \in {"mock", "wiringop"}
    /\ pins = EmptyDict
    /\ modes = EmptyDict
    /\ button = FALSE
    /\ initialized = FALSE
    /\ clock1_enabled = FALSE
    /\ clock2_enabled = FALSE
    /\ clock1_duty = 100
    /\ clock2_duty = 100
    /\ stop_latched = FALSE
    /\ channels = EmptyDict
    /\ manager = NoManager
    /\ pwm_tasks = EmptyDict
    /\ app = "down"
    /\ monitor_pc = "none"
    /\ button_was_pressed = FALSE
    /\ scheduler_pc = "none"
    /\ alarm_off_tasks = EmptyDict
    /\ tasks = EmptyDict
    /\ press_pending = FALSE
    /\ prev_sample = "none"
    /\ race = NoRace
    /\ \E alarm \in AlarmInputs : alarms = [id \in {1} |-> alarm]
    /\ \E dt \in NowInputs :
           /\ now = Datetime(dt)
           /\ last = [Event("datetime") EXCEPT !.arg = dt]

CallMatchesTime ==
    /\ last' = [Event("matches_time") EXCEPT
                   !.arg = last.arg,
                   !.ret = IF matches_time(alarms[1], now) THEN "True" ELSE "False"]
    /\ UNCHANGED <<ctlvars, button, pwmvars, appvars, histvars, race>>

NextMatches == CallMatchesTime

SpecMatches == InitMatches /\ [][NextMatches]_vars

(* -------------------------- the PWM classes in use ---------------------- *)
(* Whoever holds a SoftwarePWM or a PWMManager calls its methods, in any    *)
(* order; each call runs to completion.  A toggling task runs when the      *)
(* event loop resumes it: after its creation, or when its sleep is over.    *)
NewSoftwarePWM ==
    /\ Cardinality(DOMAIN channels) < MaxOwnChannels
    /\ \E pin \in PwmPins, frequency \in FrequencyInputs :
           Do(SoftwarePWM_init(Call(0, GpioCommandError), pin, frequency),
              "SoftwarePWM", <<pin, frequency>>)

PwmStart ==
    \E self \in DOMAIN channels :
        Do(SoftwarePWM_start(Call(0, GpioCommandError), self), "start", self)

PwmStop ==
    \E self \in DOMAIN channels, f \in GpioFaults(1) :
        Do(SoftwarePWM_stop(Call(f, GpioCommandError), self), "stop", self)

PwmSetDuty ==
    \E self \in DOMAIN channels, duty \in PwmDutyInputs :
        Do(SoftwarePWM_set_duty(Call(0, GpioCommandError), self, duty),
           "set_duty", <<self, duty>>)

PwmSetFrequency ==
    \E self \in DOMAIN channels, frequency \in FrequencyInputs :
        Do(SoftwarePWM_set_frequency(Call(0, GpioCommandError), self, frequency),
           "set_frequency", <<self, frequency>>)

PwmTaskStep ==
    \E tid \in DOMAIN pwm_tasks, f \in GpioFaults(1) :
        Do(pwm_loop(Call(f, GpioCommandError), tid), "_pwm_loop", tid)

NewPWMManager ==
    /\ ~manager.exists
    /\ \E default_frequency \in DefaultFrequencyInputs :
           Do(PWMManager_init(Call(0, GpioCommandError), default_frequency),
              "PWMManager", default_frequency)

ManagerAddChannel ==
    /\ manager.exists
    /\ Cardinality(DOMAIN channels) < MaxChannels
    /\ \E ch \in ChannelInputs, frequency \in OptionalFrequencyInputs :
           Do(PWMManager_add_channel(Call(0, GpioCommandError), ch[1], ch[2], frequency),
              "add_channel", <<ch[1], ch[2], frequency>>)

ManagerStartAll ==
    /\ manager.exists
    /\ Do(PWMManager_start_all(Call(0, GpioCommandError)), "start_all", 0)

ManagerStopAll ==
    /\ manager.exists
    /\ \E f \in GpioFaults(Len(manager.channels)) :
           Do(PWMManager_stop_all(Call(f, GpioCommandError)), "stop_all", 0)

ManagerSetDuty ==
    /\ manager.exists
    /\ \E name \in ChannelNames, duty \in ManagerDutyInputs :
           Do(PWMManager_set_duty(Call(0, GpioCommandError), name, duty),
              "manager_set_duty", <<name, duty>>)

ManagerGetDuty ==
    /\ manager.exists
    /\ \E name \in ChannelNames :
           Do(PWMManager_get_duty(Call(0, GpioCommandError), name), "get_duty", name)

(* One SoftwarePWM channel in the hands of its user.                        *)
NextPwm ==
    \/ NewSoftwarePWM
    \/ PwmStart
    \/ PwmStop
    \/ PwmSetDuty
    \/ PwmSetFrequency
    \/ PwmTaskStep

SpecPwm == Init /\ [][NextPwm]_vars

(* A PWMManager and the channels it creates.                                *)
NextManager ==
    \/ NewPWMManager
    \/ ManagerAddChannel
    \/ ManagerStartAll
    \/ ManagerStopAll
    \/ ManagerSetDuty
    \/ ManagerGetDuty
    \/ PwmTaskStep

SpecManager == Init /\ [][NextManager]_vars

(* ================================ claims ================================ *)
(* What the claims speak of.                                                *)
EnablePin(k) == IF k = 1 THEN ENA_PIN ELSE ENB_PIN

Enabled(k) == IF k = 1 THEN clock1_enabled ELSE clock2_enabled

Duty(k) == IF k = 1 THEN clock1_duty ELSE clock2_duty

(* The level last written to the pin is 0.                                  *)
PinLow(pin) == pin \in DOMAIN pins /\ pins[pin] = 0

ClockOff(k) == ~Enabled(k) /\ PinLow(EnablePin(k))

BothOff == ClockOff(1) /\ ClockOff(2)

(* A software-PWM channel toggles clock k's enable pin.                     *)
PwmRunning(k) ==
    \E name \in DOMAIN channels :
        channels[name].pin = EnablePin(k) /\ channels[name].running

PwmRunningAt(k, d) ==
    \E name \in DOMAIN channels :
        /\ channels[name].pin = EnablePin(k)
        /\ channels[name].running
        /\ channels[name].duty = d

AllOffCalls == << <<"write", ENA_PIN, 0>>, <<"write", ENB_PIN, 0>> >>

OnOps == {"clock1_on", "clock2_on"}
DutyOps == {"set_clock1_duty", "set_clock2_duty"}
GatedOps == OnOps \cup DutyOps \cup {"clock1_off", "clock2_off", "read_stop_button"}

ControllerUnchanged ==
    UNCHANGED <<pins, modes, initialized, clock1_enabled, clock2_enabled,
                clock1_duty, clock2_duty, stop_latched>>

(* C1.  A stop (API or monitor) and a turn-on of clock k (API or scheduler) *)
(* are in flight together; whichever order the event loop runs them in,     *)
(* once the turn-on has run and the stop has completed, clock k is off:     *)
(* not enabled, its enable pin last written 0.                              *)
C1_StopBeatsTurnOn ==
    (race.k # 0 /\ Range(race.done) = {"on", "stop"}) => ClockOff(race.k)

(* The scheduler's turn-on ran after the monitor's stop.                    *)
C1_Witness ==
    /\ race.on = "scheduler"
    /\ race.stop = "monitor"
    /\ race.done = <<"stop", "on">>
    /\ last.op = "alarm_scheduler"

(* C2, as stated.  While the latch is set both clocks are off; only         *)
(* clear_stop_latch ends it; and every clockN_on and every set_clockN_duty  *)
(* with duty > 0 called meanwhile returns False, writes no pin and changes  *)
(* neither enabled nor duty.                                                *)
C2_LatchedStep_AsStated ==
    /\ stop_latched' => BothOff'
    /\ (stop_latched /\ last'.op # "clear_stop_latch") => stop_latched'
    /\ (/\ stop_latched
        /\ \/ last'.op \in OnOps
           \/ last'.op \in DutyOps /\ last'.arg > 0)
       => /\ last'.exc = NoExc
          /\ last'.ret = "False"
          /\ last'.calls = <<>>
          /\ ControllerUnchanged

C2_LatchHolds_AsStated == [][C2_LatchedStep_AsStated]_vars

(* C2, amended.  The same, except that a latched controller that was never  *)
(* initialized (trigger_stop is not gated) answers clockN_on and            *)
(* set_clockN_duty with the not-initialized error instead of False; it      *)
(* still writes no pin and changes nothing.                                 *)
C2_LatchedStep ==
    /\ stop_latched' => BothOff'
    /\ (stop_latched /\ last'.op # "clear_stop_latch") => stop_latched'
    /\ (/\ stop_latched
        /\ \/ last'.op \in OnOps
           \/ last'.op \in DutyOps /\ last'.arg > 0)
       => /\ IF initialized
             THEN last'.exc = NoExc /\ last'.ret = "False"
             ELSE last'.exc = NotInitializedError
          /\ last'.calls = <<>>
          /\ ControllerUnchanged

C2_LatchHolds == [][C2_LatchedStep]_vars

(* A mid-range duty was refused while latched, after an auto-off had run.   *)
C2_Witness ==
    /\ stop_latched
    /\ initialized
    /\ last.op = "set_clock1_duty"
    /\ last.arg = 50
    /\ last.ret = "False"
    /\ DOMAIN alarm_off_tasks # {}

(* C3, as stated.  With the monitor running on real pins, a press that is   *)
(* held leads to a completed stop: the button is let go, or a pass of the   *)
(* monitor has stopped the clocks since the press.                          *)
C3_HeldPressStops ==
    (backend = "wiringop" /\ MonitorRunnable /\ button /\ press_pending)
        ~> (~button \/ ~press_pending)

(* C4, as stated.  all_off, whatever the controller's state, completes      *)
(* without raising and leaves both clocks off, and so does trigger_stop.    *)
C4_AllOffAlwaysSucceeds ==
    last.op \in {"all_off", "trigger_stop"} => (last.exc = NoExc /\ BothOff)

(* C4, amended.  all_off is refused in no state of the controller: it       *)
(* raises only when a gpio command of the backend fails, which the mock     *)
(* backend's never do.  When it returns it has written 0 to ENA and to ENB  *)
(* and both clocks are off; trigger_stop then has set the latch as well.    *)
(* When a write failed, the latch is as it was before the call.             *)
C4_AllOffStep ==
    last'.op \in {"all_off", "trigger_stop"} =>
        /\ last'.exc \in {NoExc, GpioCommandError}
        /\ backend = "mock" => last'.exc = NoExc
        /\ last'.exc = NoExc =>
               /\ last'.calls = AllOffCalls
               /\ BothOff'
               /\ last'.op = "trigger_stop" => stop_latched'
        /\ last'.exc # NoExc =>
               /\ Len(last'.calls) < Len(AllOffCalls)
               /\ stop_latched' = stop_latched

C4_AllOffUngated == [][C4_AllOffStep]_vars

(* all_off has returned on a latched controller whose clock 1 has a         *)
(* mid-range duty.                                                          *)
C4_Witness ==
    /\ last.op = "all_off"
    /\ last.exc = NoExc
    /\ stop_latched
    /\ clock1_duty = 50
    /\ BothOff

(* C5.  clockN_on, clockN_off, set_clockN_duty and read_stop_button called  *)
(* while initialize() has not completed raise the not-initialized error,    *)
(* issue no backend call and leave pins, modes, enabled, duty and latch as  *)
(* they were.                                                               *)
C5_GatedStep ==
    (~initialized /\ last'.op \in GatedOps) =>
        /\ last'.exc = NotInitializedError
        /\ last'.calls = <<>>
        /\ ControllerUnchanged

C5_NotInitializedFails == [][C5_GatedStep]_vars

(* A duty was refused after an initialize() that failed part-way.           *)
C5_Witness ==
    /\ ~initialized
    /\ DOMAIN modes # {}
    /\ last.op = "set_clock1_duty"
    /\ last.exc = NotInitializedError

(* C6, as stated.  all_off and trigger_stop on a controller that is not yet *)
(* initialized fail with the not-initialized error, write no pin and do not *)
(* set the latch.                                                           *)
C6_StopGatedStep ==
    (~initialized /\ last'.op \in {"all_off", "trigger_stop"}) =>
        /\ last'.exc = NotInitializedError
        /\ last'.calls = <<>>
        /\ pins' = pins
        /\ stop_latched' = stop_latched

C6_StopGated == [][C6_StopGatedStep]_vars

(* C6, amended.  Before initialize() has completed, every operation but     *)
(* initialize, all_off, trigger_stop and clear_stop_latch issues no backend *)
(* call and changes nothing of the controller.  all_off and trigger_stop    *)
(* are not gated: they never raise the not-initialized error, and with both *)
(* writes succeeding they write 0 to ENA and ENB and trigger_stop sets the  *)
(* latch.  clear_stop_latch clears the latch.                               *)
C6_UninitializedStep ==
    ~initialized =>
        /\ last'.op \notin {"initialize", "all_off", "trigger_stop", "clear_stop_latch"} =>
               /\ last'.calls = <<>>
               /\ ControllerUnchanged
        /\ last'.op \in {"all_off", "trigger_stop"} =>
               /\ last'.exc # NotInitializedError
               /\ last'.exc = NoExc =>
                      /\ last'.calls = AllOffCalls
                      /\ PinLow(ENA_PIN)' /\ PinLow(ENB_PIN)'
                      /\ last'.op = "trigger_stop" => stop_latched'
        /\ last'.op = "clear_stop_latch" =>
               /\ last'.calls = <<>>
               /\ ~stop_latched'

C6_StopUngated == [][C6_UninitializedStep]_vars

(* trigger_stop has latched a controller that was never initialized.        *)
C6_Witness ==
    /\ ~initialized
    /\ DOMAIN modes = {}
    /\ last.op = "trigger_stop"
    /\ last.exc = NoExc
    /\ stop_latched
    /\ PinLow(ENA_PIN)

(* C7.  initialize() on an initialized controller returns having issued no  *)
(* backend call and changed nothing, a running clock included.  On a        *)
(* controller that is not initialized it sets the flag exactly when no      *)
(* command failed, and then the two enable pins were written 0 and the four *)
(* direction pins their configured levels; after a failure the flag is      *)
(* still false.                                                             *)
DirectionCalls ==
    << <<"write", IN1_PIN, MOTOR_A_DIRECTION[1]>>, <<"write", IN2_PIN, MOTOR_A_DIRECTION[2]>>,
       <<"write", IN3_PIN, MOTOR_B_DIRECTION[1]>>, <<"write", IN4_PIN, MOTOR_B_DIRECTION[2]>> >>

C7_InitializeStep ==
    last'.op = "initialize" =>
        /\ initialized =>
               /\ last'.exc = NoExc
               /\ last'.calls = <<>>
               /\ ControllerUnchanged
        /\ ~initialized =>
               /\ initialized' <=> last'.exc = NoExc
               /\ initialized' =>
                      SubSeq(last'.calls, Len(last'.calls) - 5, Len(last'.calls))
                          = AllOffCalls \o DirectionCalls

C7_InitializeIdempotent == [][C7_InitializeStep]_vars

(* A second initialize() has returned while clock 1 is running.             *)
C7_Witness ==
    /\ last.op = "initialize"
    /\ last.exc = NoExc
    /\ last.calls = <<>>
    /\ initialized
    /\ clock1_enabled
    /\ pins[ENA_PIN] = 1

(* C8, as stated.  On an initialized controller a clock that is enabled     *)
(* with a duty strictly between 0 and 100 has a software-PWM channel        *)
(* toggling its enable pin at that duty.                                    *)
C8_MidDutyRunsPwm ==
    initialized =>
        \A k \in {1, 2} :
            (Enabled(k) /\ 0 < Duty(k) /\ Duty(k) < 100) => PwmRunningAt(k, Duty(k))

(* C9, as stated, on the mock backend, whose commands never fail: a clock   *)
(* whose duty is 0 is not enabled and its enable pin is low.                *)
C9_ZeroDutyIsOff ==
    backend = "mock" =>
        \A k \in {1, 2} : Duty(k) = 0 => ClockOff(k)

(* C10.  clockN_on that returns, on a controller that is not latched and    *)
(* whose clock N has duty 100, has issued exactly one backend call, the     *)
(* write of 1 to clock N's enable pin, returned True and left the clock     *)
(* enabled, with no PWM channel running on that pin.                        *)
C10_TurnOnStep ==
    \A k \in {1, 2} :
        (/\ last'.op = (IF k = 1 THEN "clock1_on" ELSE "clock2_on")
         /\ last'.exc = NoExc
         /\ ~stop_latched
         /\ Duty(k) = 100)
        => /\ last'.calls = << <<"write", EnablePin(k), 1>> >>
           /\ last'.ret = "True"
           /\ Enabled(k)'
           /\ pins'[EnablePin(k)] = 1
           /\ ~PwmRunning(k)'

C10_FullDutyTurnOn == [][C10_TurnOnStep]_vars

(* clock2_on has switched on a clock of duty 100.                           *)
C10_Witness ==
    /\ last.op = "clock2_on"
    /\ last.ret = "True"
    /\ clock2_duty = 100
    /\ clock2_enabled
    /\ ~stop_latched

SetDutyOp(k) == IF k = 1 THEN "set_clock1_duty" ELSE "set_clock2_duty"

Clamp(d, lo, hi) == IF d < lo THEN lo ELSE IF d > hi THEN hi ELSE d

(* C11, as stated.  set_clockN_duty that returns on an initialized          *)
(* controller whose clock N is off (not enabled, enable pin low) leaves the *)
(* clock off, whatever the duty.                                            *)
C11_DisabledDutyStep ==
    \A k \in {1, 2} :
        (/\ initialized
         /\ ClockOff(k)
         /\ last'.op = SetDutyOp(k)
         /\ last'.exc = NoExc)
        => ClockOff(k)'

C11_DutyWhileDisabled == [][C11_DisabledDutyStep]_vars

(* C12, as stated.  After set_clockN_duty(d) on an initialized controller   *)
(* the stored duty of clock N is clamp(d, 0, 100), in every state and for   *)
(* every d; the call is never refused.                                      *)
C12_ClampStep_AsStated ==
    \A k \in {1, 2} :
        (initialized /\ last'.op = SetDutyOp(k)) =>
            /\ Duty(k)' = Clamp(last'.arg, 0, 100)
            /\ last'.ret # "False"

C12_ClampAlways == [][C12_ClampStep_AsStated]_vars

(* C12, amended.  The stored duties are always within 0..100.  After        *)
(* set_clockN_duty(d) on an initialized controller the stored duty of clock *)
(* N is clamp(d, 0, 100), also when the pin write that follows fails,       *)
(* unless the stop latch is set and d > 0: then the call returns False and  *)
(* the stored duty is as it was.  No d is refused for being out of range.   *)
C12_ClampStep ==
    /\ clock1_duty' \in 0..100
    /\ clock2_duty' \in 0..100
    /\ \A k \in {1, 2} :
           (initialized /\ last'.op = SetDutyOp(k)) =>
               IF stop_latched /\ last'.arg > 0
               THEN /\ last'.exc = NoExc
                    /\ last'.ret = "False"
                    /\ Duty(k)' = Duty(k)
               ELSE /\ last'.exc \in {NoExc, GpioCommandError}
                    /\ last'.exc = NoExc => last'.ret = "True"
                    /\ Duty(k)' = Clamp(last'.arg, 0, 100)

C12_ClampUnlessLatched == [][C12_ClampStep]_vars

(* A duty below 0 was stored as 0 on a latched controller whose clock 2     *)
(* holds a duty clamped from above.                                         *)
C12_Witness ==
    /\ initialized
    /\ stop_latched
    /\ last.op = "set_clock1_duty"
    /\ last.arg < 0
    /\ last.exc = NoExc
    /\ clock1_duty = 0
    /\ clock2_duty = 100

(* C13.  get_status on a controller that is not initialized returns without *)
(* error, issues no backend call, changes nothing and reports the button as *)
(* None.  On an initialized controller, when it returns, it has read the    *)
(* stop-button pin once and reports True exactly if the level read was 0;   *)
(* on real pins that level is 0 exactly while the button is held down.      *)
C13_StatusStep ==
    last'.op = "get_status" =>
        /\ ~initialized =>
               /\ last'.exc = NoExc
               /\ last'.calls = <<>>
               /\ Len(last'.status) = 1
               /\ last'.status[1].stop_button_pressed = "None"
               /\ ControllerUnchanged
        /\ (initialized /\ last'.exc = NoExc) =>
               /\ Len(last'.calls) = 1
               /\ last'.calls[1][1] = "read"
               /\ last'.calls[1][2] = STOP_BTN_PIN
               /\ Len(last'.status) = 1
               /\ last'.status[1].stop_button_pressed =
                      (IF last'.calls[1][3] = 0 THEN "True" ELSE "False")
               /\ backend = "wiringop" => (last'.calls[1][3] = 0 <=> button)

C13_StatusButton == [][C13_StatusStep]_vars

(* The button is held down, initialize() has failed part-way, and           *)
(* get_status reports the button as None.                                   *)
C13_Witness ==
    /\ ~initialized
    /\ DOMAIN modes # {}
    /\ button
    /\ last.op = "get_status"
    /\ last.exc = NoExc
    /\ last.status[1].stop_button_pressed = "None"

(* The toggling tasks of object self that have not ended.                   *)
TasksOf(ts, self) == {t \in DOMAIN ts : ts[t].chan = self}

(* The step is a method of object self or a step of a task of it.           *)
ActsFor(self) ==
    \/ last'.op \in {"start", "stop"} /\ last'.arg = self
    \/ last'.op \in {"set_duty", "set_frequency"} /\ last'.arg[1] = self
    \/ last'.op = "_pwm_loop" /\ pwm_tasks[last'.arg].chan = self

(* C14.  stop() that returns leaves the channel's pin last written 0,       *)
(* running false and no toggling task of the channel alive, whether the     *)
(* channel was never started, had a task created or asleep in either phase, *)
(* or was stopped already.  While the channel is not running and until its  *)
(* next start(), no task of it runs or exists and whatever is done with the *)
(* channel leaves a pin that is at 0 at 0.                                  *)
C14_StopStep ==
    \A self \in DOMAIN channels :
        /\ (last'.op = "stop" /\ last'.arg = self /\ last'.exc = NoExc) =>
               /\ PinLow(channels[self].pin)'
               /\ ~channels'[self].running
               /\ channels'[self].task = 0
               /\ TasksOf(pwm_tasks', self) = {}
        /\ (~channels[self].running /\ ~(last'.op = "start" /\ last'.arg = self)) =>
               /\ ~channels'[self].running
               /\ TasksOf(pwm_tasks', self) = {}
               /\ ~(last'.op = "_pwm_loop" /\ pwm_tasks[last'.arg].chan = self)
               /\ (ActsFor(self) /\ PinLow(channels[self].pin)) => PinLow(channels[self].pin)'

C14_StopLeavesPinOff == [][C14_StopStep]_vars

(* stop() has returned on a channel of duty 50 that had been started on     *)
(* real pins: its one call is the write of 0.                               *)
C14_Witness ==
    /\ backend = "wiringop"
    /\ last.op = "stop"
    /\ last.exc = NoExc
    /\ \E self \in DOMAIN channels :
           /\ last.arg = self
           /\ channels[self].duty = 50
           /\ channels[self].frequency = 500
           /\ last.calls = << <<"write", channels[self].pin, 0>> >>
           /\ ~channels[self].running
    /\ pwm_tasks = EmptyDict

(* C15.  A channel has at most one toggling task alive, and that task is    *)
(* the one the running channel refers to; start() on a running channel      *)
(* creates no task and changes nothing; the task a stop() cancelled is not  *)
(* alive beside the task of the start() that follows.                       *)
C15_TaskStep ==
    /\ \A self \in DOMAIN channels' :
           /\ Cardinality(TasksOf(pwm_tasks', self)) <= 1
           /\ \A t \in TasksOf(pwm_tasks', self) :
                  channels'[self].running /\ channels'[self].task = t
    /\ \A self \in DOMAIN channels :
           (last'.op = "start" /\ last'.arg = self /\ channels[self].running) =>
               /\ pwm_tasks' = pwm_tasks
               /\ channels' = channels
               /\ last'.calls = <<>>

C15_OneTogglingTask == [][C15_TaskStep]_vars

(* start() was called on a channel whose task is asleep in its on-phase.    *)
C15_Witness ==
    /\ last.op = "start"
    /\ \E self \in DOMAIN channels :
           /\ last.arg = self
           /\ channels[self].running
           /\ TasksOf(pwm_tasks, self) = {channels[self].task}
           /\ pwm_tasks[channels[self].task].pc = "sleep_on"

(* C16, as stated, for a channel whose frequency is within 1..10000:        *)
(* running is true exactly if a toggling task of the channel is alive.      *)
C16_RunningIffTask ==
    \A self \in DOMAIN channels :
        channels[self].frequency \in 1..10000 =>
            (channels[self].running <=> TasksOf(pwm_tasks, self) # {})

(* C17, as stated.  The frequency of every SoftwarePWM object that exists   *)
(* is within 1..10000.                                                      *)
C17_FrequencyInRange ==
    \A self \in DOMAIN channels : channels[self].frequency \in 1..10000

(* The alarms a pass of the scheduler has to fire: enabled in the store and *)
(* matching the current time.                                               *)
Due == {id \in DOMAIN alarms : alarms[id].enabled /\ matches_time(alarms[id], now)}

TurnOnCall(id) == <<"write", EnablePin(alarms[id].clock_id), 1>>

(* The pass turned on the clock of alarm id and recorded the trigger time.  *)
FiredAndRecorded(id) ==
    /\ id \in Range(last'.fired)
    /\ TurnOnCall(id) \in Range(last'.calls)
    /\ alarms'[id].last_triggered = <<now>>

(* C18, as stated.  Every pass of the scheduler in which no command fails,  *)
(* in every controller state, turns on the clock of every alarm that is due *)
(* and records its trigger time.                                            *)
C18_TickStep_AsStated ==
    (last'.op = "alarm_scheduler" /\ last'.exc = NoExc) =>
        \A id \in Due : FiredAndRecorded(id)

C18_TickStep ==
    last'.op = "alarm_scheduler" =>
        /\ Range(last'.fired) \subseteq Due
        /\ \A id \in Range(last'.fired) :
               FiredAndRecorded(id) /\ Enabled(alarms[id].clock_id)'
        /\ stop_latched =>
               /\ last'.exc = NoExc
               /\ last'.fired = <<>>
               /\ last'.calls = <<>>
               /\ alarms' = alarms
        /\ (~stop_latched /\ last'.exc = NoExc) => Range(last'.fired) = Due
        /\ last'.exc # NoExc =>
               /\ last'.exc \in {GpioCommandError, SqliteError}
               /\ scheduler_pc' = "backoff"

OnceDue == {id \in Due : alarms[id].days = <<"once">>}

ReenabledOnlyByApi ==
    \A id \in DOMAIN alarms :
        (~alarms[id].enabled /\ alarms'[id].enabled) =>
            last'.op \in {"api_update_alarm", "api_toggle_alarm"}

C19_OnceStep_AsStated ==
    /\ last'.op = "alarm_scheduler" =>
           /\ \A id \in OnceDue :
                  TurnOnCall(id) \in Range(last'.calls) => ~alarms'[id].enabled
           /\ Range(last'.fired) \subseteq Due
    /\ ReenabledOnlyByApi

C19_OnceStep ==
    /\ last'.op = "alarm_scheduler" =>
           /\ \A id \in OnceDue :
                  /\ id \in Range(last'.fired) => ~alarms'[id].enabled
                  /\ (TurnOnCall(id) \in Range(last'.calls) /\ last'.exc = NoExc) =>
                         id \in Range(last'.fired)
                  /\ (TurnOnCall(id) \in Range(last'.calls) /\ alarms'[id].enabled) =>
                         last'.exc = SqliteError
           /\ Range(last'.fired) \subseteq Due
           /\ \A id \in DOMAIN alarms \ Due : alarms'[id] = alarms[id]
    /\ ReenabledOnlyByApi

TasksFor(ts, id) == {t \in DOMAIN ts : ts[t].alarm_id = id}

(* C20.  A pass that fires an alarm of duration D > 0 cancels the auto-off  *)
(* task registered for the alarm if that task is still asleep, and leaves   *)
(* exactly one auto-off task of the alarm asleep, registered, for the       *)
(* alarm's clock and due D seconds after this firing.  An auto-off task     *)
(* that runs is the one registered for its alarm and runs no earlier than   *)
(* it is due; no other step creates, changes or replaces an auto-off task.  *)
C20_AutoOffStep ==
    /\ last'.op = "alarm_scheduler" =>
           \A id \in Range(last'.fired) :
               alarms[id].duration > 0 =>
                   /\ (id \in DOMAIN alarm_off_tasks
                       /\ alarm_off_tasks[id] \in DOMAIN tasks) =>
                          alarm_off_tasks[id] \in Range(last'.cancelled)
                   /\ id \in DOMAIN alarm_off_tasks'
                   /\ TasksFor(tasks', id) = {alarm_off_tasks'[id]}
                   /\ tasks'[alarm_off_tasks'[id]].due = now + alarms[id].duration
                   /\ tasks'[alarm_off_tasks'[id]].clock_id = alarms[id].clock_id
    /\ last'.op = "auto_off" =>
           /\ alarm_off_tasks[tasks[last'.arg].alarm_id] = last'.arg
           /\ tasks[last'.arg].due <= now
           /\ last'.calls \in {<<>>, << <<"write", EnablePin(tasks[last'.arg].clock_id), 0>> >>}
    /\ \A t \in DOMAIN tasks' :
           (t \notin DOMAIN tasks \/ tasks'[t] # tasks[t]) =>
               /\ last'.op = "alarm_scheduler"
               /\ tasks'[t].alarm_id \in Range(last'.fired)

C20_RefireReplacesAutoOff == [][C20_AutoOffStep]_vars

(* The alarm fired at second 0 and again at second 1, while the auto-off of *)
(* its first firing was asleep; that one was cancelled and the auto-off now *)
(* registered is due at second 2.                                           *)
C20_Witness ==
    /\ last.op = "alarm_scheduler"
    /\ last.fired = <<1>>
    /\ now = 1
    /\ Len(last.cancelled) = 1
    /\ DOMAIN tasks = {alarm_off_tasks[1]}
    /\ tasks[alarm_off_tasks[1]].due = 2

(* C21, as stated.  A pass of the scheduler that has turned on the clock of *)
(* a due alarm of duration D > 0 leaves exactly one auto-off task of that   *)
(* alarm asleep and registered for it; an auto-off task that runs removes   *)
(* its alarm's entry; and every entry of the registry is a task that has    *)
(* not ended.                                                               *)
C21_RegistryStep ==
    /\ last'.op = "alarm_scheduler" =>
           \A id \in Due :
               (alarms[id].duration > 0 /\ TurnOnCall(id) \in Range(last'.calls)) =>
                   /\ id \in DOMAIN alarm_off_tasks'
                   /\ TasksFor(tasks', id) = {alarm_off_tasks'[id]}
    /\ last'.op = "auto_off" =>
           tasks[last'.arg].alarm_id \notin DOMAIN alarm_off_tasks'
    /\ \A id \in DOMAIN alarm_off_tasks' : alarm_off_tasks'[id] \in DOMAIN tasks'

C21_RegistryHoldsPending == [][C21_RegistryStep]_vars

(* The weekday a piece of the days column names, 0 for Monday; 7 when it    *)
(* names none.                                                              *)
DayOf(d) ==
    CASE d \in {"mon", "MON"} -> 0
      [] d = "tue" -> 1
      [] d \in {"wed", " Wed"} -> 2
      [] d = "thu" -> 3
      [] d = "fri" -> 4
      [] d = "sat" -> 5
      [] d = "sun" -> 6
      [] OTHER -> 7

(* The reference predicate of matches, on the fields of the time.           *)
MatchesReference(alarm, weekday, hour, minute, second) ==
    /\ alarm.enabled
    /\ hour = alarm.hour /\ minute = alarm.minute /\ second = alarm.second
    /\ \/ alarm.days = <<"daily">>
       \/ alarm.days = <<"once">>
       \/ /\ alarm.days \notin {<<"daily">>, <<"once">>}
          /\ \E i \in DOMAIN alarm.days : DayOf(alarm.days[i]) = weekday

(* C22.  matches_time(now) is the reference predicate: false for a disabled *)
(* alarm; false unless hour, minute and second all equal the alarm's;       *)
(* otherwise true for "daily" and for "once" on every weekday, and for a    *)
(* weekday list true exactly if today's weekday is one of those listed.     *)
C22_MatchesReference ==
    last.op = "matches_time" =>
        (last.ret = "True" <=>
            MatchesReference(alarms[1], last.arg[1], last.arg[2], last.arg[3], last.arg[4]))

(* A weekday list written with capitals and a blank matched on a Wednesday, *)
(* at the alarm's time.                                                     *)
C22_Witness ==
    /\ last.op = "matches_time"
    /\ last.ret = "True"
    /\ alarms[1].days = <<"MON", " Wed">>
    /\ last.arg = <<2, 7, 30, 0>>

(* C23.  A pass of either loop in which an error is raised (a gpio command  *)
(* that fails, output int() rejects, a statement of the store that fails)   *)
(* leaves the task at its back-off sleep, and after every pass the task can *)
(* run another.  A loop task stops being runnable only when the lifespan    *)
(* cancels it, and ends only by receiving that cancellation; wherever the   *)
(* task is suspended when it receives it, at the sleep of the loop, at a    *)
(* back-off sleep or before its first run, it ends.                         *)
C23_LoopStep ==
    /\ (last'.op = "stop_button_monitor" /\ last'.exc # NoExc) =>
           monitor_pc' \in {"backoff_gpio", "backoff_error"}
    /\ (last'.op = "alarm_scheduler" /\ last'.exc # NoExc) => scheduler_pc' = "backoff"
    /\ last'.op = "stop_button_monitor" => MonitorRunnable'
    /\ last'.op = "alarm_scheduler" => SchedulerRunnable'
    /\ (MonitorRunnable /\ ~MonitorRunnable') =>
           /\ last'.op = "lifespan_cancel"
           /\ monitor_pc' = CancelRequested(monitor_pc)
    /\ (SchedulerRunnable /\ ~SchedulerRunnable') =>
           /\ last'.op = "lifespan_cancel"
           /\ scheduler_pc' = CancelRequested(scheduler_pc)
    /\ (monitor_pc # "cancelled" /\ monitor_pc' = "cancelled") =>
           last'.op = "monitor_cancelled"
    /\ (scheduler_pc # "cancelled" /\ scheduler_pc' = "cancelled") =>
           last'.op = "scheduler_cancelled"
    /\ last'.op = "monitor_cancelled" => monitor_pc' = "cancelled"
    /\ last'.op = "scheduler_cancelled" => scheduler_pc' = "cancelled"

C23_LoopsEndOnlyByCancel == [][C23_LoopStep]_vars

(* The scheduler was cancelled at the back-off sleep that followed a failed *)
(* pass, after the monitor had been cancelled; both tasks have ended.       *)
C23_Witness ==
    /\ last.op = "scheduler_cancelled"
    /\ last.arg = "cancel@backoff"
    /\ scheduler_pc = "cancelled"
    /\ monitor_pc = "cancelled"

(* The pass called trigger_stop: a write followed its read, or the first    *)
(* write failed.                                                            *)
TriggerCalled(l) ==
    /\ l.op = "stop_button_monitor"
    /\ \/ Len(l.calls) >= 2
       \/ Len(l.calls) = 1 /\ l.exc # NoExc

(* The pass read the button, and read it pressed.                           *)
SampledPressed(l) == Sampled(l, "none") = "pressed"

(* C24, as stated.  A pass of the monitor calls trigger_stop exactly if it  *)
(* reads the button pressed and the sample before it was not pressed (no    *)
(* sample before the first counts as not pressed).                          *)
C24_EdgeStep_AsStated ==
    last'.op = "stop_button_monitor" =>
        (TriggerCalled(last') <=> (SampledPressed(last') /\ prev_sample # "pressed"))

C24_TriggerOnRisingEdge == [][C24_EdgeStep_AsStated]_vars

(* C24, amended.  A pass calls trigger_stop exactly if it reads the button  *)
(* pressed and button_was_pressed is false.  button_was_pressed is the      *)
(* sample of the latest pass that ended without error: a pass that reads    *)
(* not-pressed never triggers, and a pass that reads pressed after a sample *)
(* that was pressed triggers only when button_was_pressed is still false,   *)
(* which it is only after a pass whose trigger_stop raised.                 *)
C24_EdgeStep ==
    /\ last'.op = "stop_button_monitor" =>
           /\ TriggerCalled(last') <=> (SampledPressed(last') /\ ~button_was_pressed)
           /\ button_was_pressed' =
                  (IF last'.exc = NoExc THEN SampledPressed(last') ELSE button_was_pressed)
           /\ (TriggerCalled(last') /\ last'.exc = NoExc) =>
                  /\ stop_latched' /\ BothOff'
                  /\ Len(last'.calls) = 3
    /\ button_was_pressed' => prev_sample' = "pressed"
    /\ (/\ prev_sample' = "pressed" /\ ~button_was_pressed'
        /\ ~(prev_sample = "pressed" /\ ~button_was_pressed))
       => /\ TriggerCalled(last')
          /\ last'.exc = GpioCommandError

C24_TriggerOnEdgeOrRetry == [][C24_EdgeStep]_vars

(* The button is still held at the pass after the one that stopped the      *)
(* clocks; the latch was cleared and clock 1 turned on in between, and the  *)
(* pass has read the button pressed and triggered nothing.                  *)
C24_Witness ==
    /\ last.op = "stop_button_monitor"
    /\ last.exc = NoExc
    /\ last.calls = << <<"read", STOP_BTN_PIN, 0>> >>
    /\ button_was_pressed
    /\ ~stop_latched
    /\ clock1_enabled

(* C25.  When the lifespan's shutdown has run to its end without raising,   *)
(* both loop tasks have ended, no auto-off task is left and the registry is *)
(* empty, and both clocks are off.  Its last part cancels every auto-off    *)
(* task that is still asleep, none of which runs afterwards, and writes     *)
(* nothing but the two zeros of cleanup().  After it no step changes a pin  *)
(* or an enabled flag, and no loop pass and no auto-off runs.               *)
C25_ShutdownStep ==
    /\ app' = "stopped" =>
           /\ monitor_pc' = "cancelled"
           /\ scheduler_pc' = "cancelled"
           /\ tasks' = EmptyDict
           /\ alarm_off_tasks' = EmptyDict
           /\ BothOff'
    /\ last'.op = "lifespan_finish" =>
           /\ DOMAIN tasks \subseteq Range(last'.cancelled)
           /\ tasks' = EmptyDict
           /\ alarm_off_tasks' = EmptyDict
           /\ last'.exc = NoExc => (last'.calls = AllOffCalls /\ app' = "stopped")
           /\ last'.exc # NoExc => (Len(last'.calls) < Len(AllOffCalls) /\ app' = "failed")
    /\ app = "stopped" =>
           /\ app' = "stopped"
           /\ ControllerUnchanged
           /\ last'.op \in {"press_button", "release_button"}

C25_ShutdownLeavesAllOff == [][C25_ShutdownStep]_vars

(* The shutdown has completed; it cancelled the auto-off of alarm 1, which  *)
(* had fired, and cleanup() wrote both enable pins low.                     *)
C25_Witness ==
    /\ app = "stopped"
    /\ last.op = "lifespan_finish"
    /\ Len(last.cancelled) = 1
    /\ last.calls = AllOffCalls
    /\ alarms[1].last_triggered # <<>>
    /\ ~stop_latched

(* C26.  A step of a toggling task that begins a period issues one write,   *)
(* chosen by the duty the channel holds at that moment: 0 for a duty <= 0   *)
(* and 1 for a duty >= 100, each followed by the sleep of a whole period,   *)
(* and 1 followed by the on-time sleep for a duty in between.  The step     *)
(* after the on-time sleep writes 0, whatever the duty has become, and is   *)
(* not taken once the channel was stopped.  A write that fails ends the     *)
(* task.  set_duty writes no pin and leaves the task where it is.           *)
C26_PeriodStep ==
    /\ last'.op = "_pwm_loop" =>
           LET tid == last'.arg
               t == pwm_tasks[tid]
               self == channels[t.chan]
               wrote(v) == last'.calls = << <<"write", self.pin, v>> >>
               at(pc) == tid \in DOMAIN pwm_tasks' /\ pwm_tasks'[tid].pc = pc
           IN  /\ self.running
               /\ last'.exc # NoExc => (last'.calls = <<>> /\ tid \notin DOMAIN pwm_tasks')
               /\ last'.exc = NoExc =>
                      IF t.pc = "sleep_on" THEN wrote(0) /\ at("sleep_off")
                      ELSE IF self.duty <= 0 THEN wrote(0) /\ at("sleep_period")
                      ELSE IF self.duty >= 100 THEN wrote(1) /\ at("sleep_period")
                      ELSE wrote(1) /\ at("sleep_on")
    /\ last'.op = "set_duty" =>
           /\ last'.calls = <<>>
           /\ pins' = pins
           /\ pwm_tasks' = pwm_tasks
           /\ channels'[last'.arg[1]].duty = Clamp(last'.arg[2], 0, 100)
    /\ last'.op = "stop" =>
           TasksOf(pwm_tasks', last'.arg) = {}

C26_WritesFollowPeriodDuty == [][C26_PeriodStep]_vars

(* The duty was set to 100 during the on-time of a period begun at duty 50; *)
(* the task has written the 0 of that period.                               *)
C26_Witness ==
    /\ last.op = "_pwm_loop"
    /\ last.exc = NoExc
    /\ \E tid \in DOMAIN pwm_tasks :
           /\ last.arg = tid
           /\ pwm_tasks[tid].pc = "sleep_off"
           /\ channels[pwm_tasks[tid].chan].duty = 100
           /\ last.calls = << <<"write", channels[pwm_tasks[tid].chan].pin, 0>> >>

(* C27, as stated.  On an initialized controller, also after calls in which *)
(* a pin write failed, each clock's enabled flag is true exactly if the     *)
(* level last written to its enable pin is 1.                               *)
C27_EnabledMatchesPin ==
    initialized =>
        \A k \in {1, 2} :
            Enabled(k) <=> (EnablePin(k) \in DOMAIN pins /\ pins[EnablePin(k)] = 1)

(* C28, as stated.  An auto-off that switches a clock off does so no        *)
(* earlier than D seconds after every firing that turned that clock on with *)
(* a duration D > 0: no auto-off task of another alarm of the same clock is *)
(* still asleep with its D seconds not yet over.                            *)
C28_AutoOffStep ==
    (last'.op = "auto_off" /\ last'.calls # <<>>) =>
        \A t \in DOMAIN tasks' :
            tasks'[t].clock_id = tasks[last'.arg].clock_id => tasks'[t].due <= now

C28_NoEarlyAutoOff == [][C28_AutoOffStep]_vars

(* C29.  A pass of the scheduler that runs while the stop latch is set      *)
(* issues no backend call and no statement that fails, fires nothing,       *)
(* leaves every alarm row as it was (last_triggered and enabled included),  *)
(* creates, registers and cancels no auto-off task, changes nothing of the  *)
(* controller and goes to its one-second sleep.                             *)
C29_LatchedTickStep ==
    (last'.op = "alarm_scheduler" /\ stop_latched) =>
        /\ last'.exc = NoExc
        /\ last'.calls = <<>>
        /\ last'.fired = <<>>
        /\ last'.cancelled = <<>>
        /\ alarms' = alarms
        /\ alarm_off_tasks' = alarm_off_tasks
        /\ tasks' = tasks
        /\ ControllerUnchanged
        /\ scheduler_pc' = "sleep_latched"

C29_LatchedTickNoEffect == [][C29_LatchedTickStep]_vars

(* A latched pass has run at the second the "once" alarm is set for: the    *)
(* alarm is still enabled and has never been triggered.                     *)
C29_Witness ==
    /\ last.op = "alarm_scheduler"
    /\ stop_latched
    /\ scheduler_pc = "sleep_latched"
    /\ 1 \in OnceDue
    /\ alarms[1].enabled
    /\ alarms[1].last_triggered = <<>>

(* C30, as stated.  When stop_all() returns, no toggling task of a          *)
(* SoftwarePWM the manager constructed with a frequency within 1..10000 is  *)
(* alive, and the pin of every SoftwarePWM the manager constructed was last *)
(* written 0.                                                               *)
C30_StopAllStep ==
    (last'.op = "stop_all" /\ last'.exc = NoExc) =>
        /\ \A t \in DOMAIN pwm_tasks' :
               channels'[pwm_tasks'[t].chan].frequency \notin 1..10000
        /\ \A self \in DOMAIN channels' :
               /\ channels'[self].pin \in DOMAIN pins'
               /\ pins'[channels'[self].pin] = 0

C30_StopAllStopsEverything == [][C30_StopAllStep]_vars

====
